---- MODULE Spec2Model ----
(***************************************************************************)
(* RTE (Road to Employment) browser extension.                             *)
(*                                                                         *)
(* Part 1 models the background service worker                             *)
(* (src/extension/background/service-worker.js): the caption batch         *)
(* handler, commitCaption, rebuildTranscript, the legacy transcript        *)
(* handler, the debounced flush to the Google Translate tab, the           *)
(* asynchronous spelling correction, clear / activate / deactivate, and    *)
(* the translate bridge (src/extension/content/translate-bridge.js) that   *)
(* receives the service worker's messages.                                 *)
(*                                                                         *)
(* Part 2 models the diff-and-store engine of the caption copyer           *)
(* (src/extension/content/caption-copyer.js).                              *)
(*                                                                         *)
(* Texts are sequences of characters.  Timestamps (Date.now()) and the     *)
(* language codes are carried opaquely by the code and are not modelled.   *)
(***************************************************************************)
EXTENDS Integers, Sequences, FiniteSets, TLC

VARIABLES
    \* ---- service worker: let state = {...}  (service-worker.js:12-21)
    active,               \* state.active
    translateTabId,       \* state.translateTabId
    meetingTabId,         \* state.meetingTabId
    platform,             \* state.platform       ("null" = null)
    fullTranscript,       \* state.fullTranscript : sequence of blocks
    spellingCorrection,   \* state.spellingCorrection
    \* ---- service worker: module-level variables
    debounceTimer,        \* 0 = no timer pending, else the delay it was armed with
    armedTimers,          \* number of setTimeout(flushToTranslate) timers not yet fired or cancelled
    lastVisibleCaptions,  \* the last batch received
    translateDirty,
    pendingCorrectionId,
    committedBlocks,
    \* ---- asynchronous continuations of the service worker
    corrections,          \* correctLastBlockAsync calls awaiting the provider
    clearAwaiting,        \* clearConversationHistory suspended at its awaits
    \* ---- environment of the service worker
    storage,              \* chrome.storage.session content written by saveState
    sinkMsg,              \* last message sent to the translate tab
    bridgeBlocks,         \* translate-bridge.js: let blocks
    \* ---- service worker: assist commands
    lastCommandName,
    lastCommandTime,
    now,                  \* Date.now() read by the last dispatchCommand call
    queries,              \* dispatchCommand calls past the debounce, in order of arrival
    stateLoaded,          \* let stateLoaded
    loadsInFlight,        \* loadState() calls that have not yet completed
    \* ---- capture script of the meeting page (meet-transcript.js and the Teams scripts)
    script,               \* which capture script the page runs
    trackState,           \* "none", "loading" (readyCheck), "tracking", "stopped"
    lastBatchJSON,        \* let lastBatchJSON
    scene,                \* position of the page in Scenes: what extractCaptions() returns
    outbox,               \* runtime messages of the page on their way to the worker
    trackInbox,           \* TRUE = an rteDeactivated message is on its way to the script
    \* ---- caption copyer (content script)
    captionContainer,     \* the attached element ("null" = none)
    isDirty,
    previousTexts,
    capturedEntries,
    knownSpeakers,
    listening,            \* boot() has registered the key and message listeners
    intervals,            \* TRUE = the intervals pushed by boot() are running
    tabInbox,             \* TRUE = an rteDeactivated message is on its way to the page
    clipboard,            \* the text last given to writeClipboard
    sentenceCount,        \* let sentenceCount, as the option string "1", "5", "all"
    \* ---- caption copyer: container discovery and the page it runs in
    documentEls,          \* the elements that document.contains
    innerText,            \* el.innerText of every element
    pendingCandidate,     \* ("null" = none)
    pendingCandidateText,
    pendingCandidateTs,
    pageClock,            \* Date.now() at the last searchBySelectors tick
    mutationHits,         \* Map el -> count (0 = no entry)
    textScanPrev,         \* Map el -> text (Unseen = no entry)
    textScanHits          \* Map el -> count (0 = no entry)

swVars == <<active, translateTabId, meetingTabId, platform, fullTranscript,
            spellingCorrection, debounceTimer, armedTimers, lastVisibleCaptions,
            translateDirty, pendingCorrectionId, committedBlocks,
            corrections, clearAwaiting, storage, sinkMsg, bridgeBlocks>>

captureVars == <<captionContainer, isDirty, previousTexts, capturedEntries, knownSpeakers>>

copyVars == <<listening, intervals, tabInbox, clipboard, sentenceCount>>

discVars == <<documentEls, innerText, pendingCandidate, pendingCandidateText,
              pendingCandidateTs, pageClock, mutationHits, textScanPrev, textScanHits>>

ccVars == <<captureVars, copyVars, discVars>>

cmdVars == <<lastCommandName, lastCommandTime, now, queries>>

trackVars == <<script, trackState, lastBatchJSON, scene, outbox, trackInbox>>

lifeVars == <<stateLoaded, loadsInFlight, trackVars>>

vars == <<swVars, ccVars, cmdVars, lifeVars>>

-----------------------------------------------------------------------------
(* Bounds of the model *)

\* committedBlocks never grows beyond this many blocks
MaxBlocks == 2
\* pendingCorrectionId never grows beyond this value
MaxCorrectionId == 2
\* committedBlocks of a long session never grows beyond this many blocks
MaxCheckpointBlocks == 11
MaxLoads == 2

(* Program constants *)

DEBOUNCE_MS == 500
DEBOUNCE_FIRST_MS == 150
COMMAND_DEBOUNCE_MS == 500
\* commitCaption: last.text.slice(0, 10)
COMMIT_PREFIX_LEN == 10
\* correctSpelling: text.trim().length < 8
MIN_CORRECT_LEN == 8
\* flushToTranslate: transcript.slice(-10)
FLUSH_BLOCKS == 10
\* correctLastBlockAsync: state.fullTranscript.slice(-20)
CORRECTION_BLOCKS == 20
\* saveState: state.fullTranscript.slice(-200)
PERSIST_BLOCKS == 200
\* flushToTranslate: state.fullTranscript.length % 10 === 0
CHECKPOINT_EVERY == 10

-----------------------------------------------------------------------------
(* Strings *)

Min(a, b) == IF a <= b THEN a ELSE b
Max(a, b) == IF a >= b THEN a ELSE b

\* String.prototype.slice(from, to) with 0 <= from, 0-based, end exclusive
Slice(s, from, to) == SubSeq(s, from + 1, Min(to, Len(s)))

\* Array.prototype.slice(-n)
LastN(s, n) == SubSeq(s, Max(1, Len(s) - n + 1), Len(s))

\* String.prototype.startsWith
StartsWith(s, p) == Len(p) <= Len(s) /\ SubSeq(s, 1, Len(p)) = p

\* n copies of character c
Rep(c, n) == [i \in 1..n |-> c]

\* The caption texts of the model: "h" repeated 8 / 9 times (an utterance and
\* its revision by prefix extension) and an unrelated text of 8 characters.
Texts == { Rep("h", 8), Rep("h", 9), Rep("w", 8) }

Speakers == {"A", "B"}

\* Tab ids: null, the Google Translate tab opened by handleActivate, and the
\* meeting tab whose content script sends the captions
NoTab == "null"
TranslateTab == "translateTab"
MeetTab == "meetingTab"

Block(s, t) == [speaker |-> s, text |-> t]

Captions == { Block(s, t) : s \in Speakers, t \in Texts }

\* The batches a content script can send: all visible captions, top to bottom
Batches == {<<>>} \cup { <<c>> : c \in Captions }
                  \cup { <<c, d>> : c \in Captions, d \in Captions }

-----------------------------------------------------------------------------
(* commitCaption and rebuildTranscript  (service-worker.js:526-560) *)

\* commitCaption without the same-speaker merge: every new text is pushed
commitCaption_noMerge(cb, speaker, text) ==
    IF text = <<>> THEN cb
    ELSE IF cb # <<>> /\ cb[Len(cb)] = Block(speaker, text) THEN cb
    ELSE Append(cb, Block(speaker, text))

\* commitCaption pushing a new speaker's block at the front (unshift for push)
commitCaption_unshift(cb, speaker, text) ==
    IF text = <<>> THEN cb
    ELSE IF cb = <<>> THEN Append(cb, Block(speaker, text))
    ELSE LET last == cb[Len(cb)] IN
         IF last.speaker = speaker /\ last.text = text THEN cb
         ELSE IF last.speaker = speaker
              THEN IF \/ Len(text) > Len(last.text)
                      \/ ~StartsWith(text, Slice(last.text, 0, COMMIT_PREFIX_LEN))
                   THEN [cb EXCEPT ![Len(cb)].text = text]
                   ELSE cb
              ELSE <<Block(speaker, text)>> \o cb

\* Commit a finalized caption to the permanent transcript; cb is committedBlocks
commitCaption(cb, speaker, text) ==
    IF text = <<>> THEN cb
    ELSE IF cb = <<>> THEN Append(cb, Block(speaker, text))
    ELSE LET last == cb[Len(cb)] IN
         IF last.speaker = speaker /\ last.text = text THEN cb
         ELSE IF last.speaker = speaker
              THEN IF \/ Len(text) > Len(last.text)
                      \/ ~StartsWith(text, Slice(last.text, 0, COMMIT_PREFIX_LEN))
                   THEN [cb EXCEPT ![Len(cb)].text = text]
                   ELSE cb
              ELSE Append(cb, Block(speaker, text))

\* the for-loops of handleCaptionBatch: commitCaption for each caption of gone
RECURSIVE CommitAll(_, _)
CommitAll(cb, gone) ==
    IF gone = <<>> THEN cb
    ELSE CommitAll(commitCaption(cb, Head(gone).speaker, Head(gone).text), Tail(gone))

\* the for-loop of rebuildTranscript over the visible captions
RECURSIVE MergeVisible(_, _)
MergeVisible(result, visible) ==
    IF visible = <<>> THEN result
    ELSE LET cap == Head(visible) IN
         IF result # <<>> /\ result[Len(result)].speaker = cap.speaker
         THEN MergeVisible([result EXCEPT ![Len(result)].text = cap.text], Tail(visible))
         ELSE MergeVisible(Append(result, Block(cap.speaker, cap.text)), Tail(visible))

\* state.fullTranscript as rebuilt from committed + visible
rebuildTranscript(cb, visible) == MergeVisible(cb, visible)

\* old.speaker + ':' + old.text
Key(c) == <<c.speaker, ":">> \o c.text

\* newTexts.includes(key)
Includes(keys, key) == \E i \in 1..Len(keys) : keys[i] = key

RECURSIVE SelectGone(_, _)
SelectGone(old, newTexts) ==
    IF old = <<>> THEN <<>>
    ELSE IF Includes(newTexts, Key(Head(old)))
         THEN SelectGone(Tail(old), newTexts)
         ELSE <<Head(old)>> \o SelectGone(Tail(old), newTexts)

\* The old visible captions handleCaptionBatch commits, in order
Disappeared(oldVisible, newVisible) ==
    IF oldVisible # <<>> /\ newVisible # <<>>
    THEN SelectGone(oldVisible, [i \in 1..Len(newVisible) |-> Key(newVisible[i])])
    ELSE IF oldVisible # <<>> /\ newVisible = <<>>
         THEN oldVisible
         ELSE <<>>

-----------------------------------------------------------------------------
(* Persistence, sink and corrections *)

\* clearTimeout leaving the timer armed
clearTimeout_noop(armed, handle) == armed

\* clearTimeout(debounceTimer): the timer the handle refers to, if it is still
\* pending, is cancelled; armed is the number of pending timers
clearTimeout(armed, handle) == IF handle # 0 THEN armed - 1 ELSE armed

\* saveState keeping the first blocks instead of the last ones
saveState_head(act, ttab, mtab, plat, spell, transcript) ==
    [ stored |-> TRUE, active |-> act, translateTabId |-> ttab,
      meetingTabId |-> mtab, platform |-> plat, spellingCorrection |-> spell,
      transcript |-> SubSeq(transcript, 1, Min(Len(transcript), PERSIST_BLOCKS)) ]

\* the data object built by saveState from the given state fields
saveState(act, ttab, mtab, plat, spell, transcript) ==
    [ stored |-> TRUE, active |-> act, translateTabId |-> ttab,
      meetingTabId |-> mtab, platform |-> plat, spellingCorrection |-> spell,
      transcript |-> LastN(transcript, PERSIST_BLOCKS) ]

EmptyStorage ==
    [ stored |-> FALSE, active |-> FALSE, translateTabId |-> NoTab,
      meetingTabId |-> NoTab, platform |-> "null", spellingCorrection |-> TRUE,
      transcript |-> <<>> ]

NoMsg == [type |-> "none", blocks |-> <<>>]

\* transcript.slice(-n).map(e => ({speaker: e.speaker, text: e.text}))
RecentBlocks(transcript, n) == LastN(transcript, n)

\* setBlocks appending to the list instead of replacing it
setBlocks_append(blocks, newBlocks) == blocks \o newBlocks

\* translate-bridge.js setBlocks: blocks = newBlocks || []
setBlocks(blocks, newBlocks) == newBlocks

\* translate-bridge.js clearAll: blocks = []
clearAll(blocks) == <<>>

\* The translate bridge's onMessage switch: the bridge's blocks after msg
BridgeReceive(blocks, msg) ==
    CASE msg.type = "translateSetBlocks" -> setBlocks(blocks, msg.blocks)
      [] msg.type = "clearTranslation"   -> clearAll(blocks)
      [] OTHER                           -> blocks

\* A rebuild, clear, activate or deactivate replaces the state.fullTranscript
\* array: the block object an in-flight correction holds is no longer part of
\* the transcript (idx 0) and keeps the text it had (otext).
Orphaned(cs, transcript) ==
    { [c EXCEPT !.idx = 0,
                !.otext = IF c.idx > 0 THEN transcript[c.idx].text ELSE c.otext]
      : c \in cs }

\* What the provider call inside correctSpelling can produce
ProviderOutcomes ==
    { [kind |-> "throw", text |-> <<>>],       \* fetch fails / non-OK response
      [kind |-> "noKey", text |-> <<>>],       \* no API key configured
      [kind |-> "text",  text |-> <<>>],       \* empty result
      [kind |-> "text",  text |-> Rep("c", 8)],   \* a corrected text
      [kind |-> "bad",   text |-> Rep("c", 8)],   \* contains a rejected phrase
      [kind |-> "text",  text |-> Rep("c", 19)] } \* longer than twice the original

\* correctSpelling without the checks of the result
correctSpelling_unchecked(text, outcome) ==
    IF text = <<>> \/ Len(text) < MIN_CORRECT_LEN THEN text
    ELSE IF outcome.kind = "noKey" THEN text
    ELSE IF outcome.text = <<>> THEN text
    ELSE outcome.text

\* correctSpelling(text) given the provider's outcome (not "throw")
correctSpelling(text, outcome) ==
    IF text = <<>> \/ Len(text) < MIN_CORRECT_LEN THEN text
    ELSE IF outcome.kind = "noKey" THEN text
    ELSE IF outcome.text = <<>> THEN text
    ELSE IF outcome.kind = "bad" \/ Len(outcome.text) > Len(text) * 2 THEN text
    ELSE outcome.text

-----------------------------------------------------------------------------
(* Service worker: initial state *)

SwInit ==
    /\ active = FALSE
    /\ translateTabId = NoTab
    /\ meetingTabId = NoTab
    /\ platform = "null"
    /\ fullTranscript = <<>>
    /\ spellingCorrection = TRUE
    /\ debounceTimer = 0
    /\ armedTimers = 0
    /\ lastVisibleCaptions = <<>>
    /\ translateDirty = FALSE
    /\ pendingCorrectionId = 0
    /\ committedBlocks = <<>>
    /\ corrections = {}
    /\ clearAwaiting = FALSE
    /\ storage = EmptyStorage
    /\ sinkMsg = NoMsg
    /\ bridgeBlocks = <<>>

\* The elements of the meeting page that the copyer can pick: "e1" is the
\* element matched by a selector of SELECTORS[platform].containers, "e2" an
\* element no selector matches
Els == {"e1", "e2"}

NoEl == "null"

SelectorEls == {"e1"}

\* textScanPrev.get(el) === undefined
Unseen == <<"undefined">>

\* a text of the page that never changes by itself and reads like a caption
ChromeText == <<"a", "b", " ", "c", "d", " ", "e", "f", " ", "g", "h">>

\* no meeting page has run the content script yet
CcIdle ==
    /\ captionContainer = NoEl
    /\ isDirty = TRUE
    /\ previousTexts = <<>>
    /\ capturedEntries = <<>>
    /\ knownSpeakers = {}
    /\ listening = FALSE
    /\ intervals = FALSE
    /\ tabInbox = FALSE
    /\ clipboard = <<>>
    /\ sentenceCount = "5"
    /\ documentEls = Els
    /\ innerText = [el \in Els |-> ChromeText]
    /\ pendingCandidate = NoEl
    /\ pendingCandidateText = <<>>
    /\ pendingCandidateTs = 0
    /\ pageClock = 0
    /\ mutationHits = [el \in Els |-> 0]
    /\ textScanPrev = [el \in Els |-> Unseen]
    /\ textScanHits = [el \in Els |-> 0]

\* lastCommandTime = 0, lastCommandName = ''; Date.now() is far more than
\* COMMAND_DEBOUNCE_MS past 0 when the worker starts
CmdInit ==
    /\ lastCommandName = ""
    /\ lastCommandTime = 0
    /\ now = COMMAND_DEBOUNCE_MS
    /\ queries = <<>>

\* no meeting page runs a capture script
TrackIdle ==
    /\ script = "meet"
    /\ trackState = "none"
    /\ lastBatchJSON = <<>>
    /\ scene = 1
    /\ outbox = <<>>
    /\ trackInbox = FALSE

\* the start-up loadState has completed
Loaded == stateLoaded = TRUE /\ loadsInFlight = 0

\* The worker has started and loadState has run on an empty storage
Init == SwInit /\ CcIdle /\ CmdInit /\ Loaded /\ TrackIdle

-----------------------------------------------------------------------------
(* Service worker: handlers *)

\* safeSendTab(state.translateTabId, msg): the bridge of the tab handles msg
SendToSink(msg) ==
    /\ sinkMsg' = msg
    /\ bridgeBlocks' = BridgeReceive(bridgeBlocks, msg)

SessionOff_never == FALSE

\* if (!state.active) return, the first line of both caption handlers
SessionOff == ~active

\* handleCaptionBatch(msg, sender) for msg.captions = captions, in a
\* session of at most max committed blocks
captionBatch(captions, max) ==
    IF SessionOff THEN UNCHANGED swVars
    ELSE
      /\ meetingTabId' = MeetTab
      /\ platform' = "meet"
      /\ IF captions = <<>> /\ lastVisibleCaptions = <<>>
         THEN UNCHANGED <<fullTranscript, lastVisibleCaptions, translateDirty,
                          debounceTimer, armedTimers, committedBlocks, corrections>>
         ELSE LET cb == CommitAll(committedBlocks,
                                  Disappeared(lastVisibleCaptions, captions)) IN
              /\ Len(cb) <= max
              /\ committedBlocks' = cb
              /\ lastVisibleCaptions' = captions
              /\ fullTranscript' = rebuildTranscript(cb, captions)
              /\ corrections' = Orphaned(corrections, fullTranscript)
              /\ translateDirty' = TRUE
              /\ debounceTimer' = DEBOUNCE_FIRST_MS
              /\ armedTimers' = clearTimeout(armedTimers, debounceTimer) + 1
      /\ UNCHANGED <<active, translateTabId, spellingCorrection, pendingCorrectionId,
                     clearAwaiting, storage, sinkMsg, bridgeBlocks>>

\* a captionBatch message handled with no other component taking a step
handleCaptionBatch(captions, max) ==
    captionBatch(captions, max) /\ UNCHANGED <<ccVars, cmdVars, lifeVars>>

HandleCaptionBatch(captions) == handleCaptionBatch(captions, MaxBlocks)

\* state.fullTranscript after handleLegacyTranscript's in-place update or push
LegacyUpdate(transcript, speaker, text) ==
    IF transcript # <<>> /\ transcript[Len(transcript)].speaker = speaker
    THEN [transcript EXCEPT ![Len(transcript)].text = text]
    ELSE Append(transcript, Block(speaker, text))

\* handleLegacyTranscript(msg, sender) for msg.speaker = speaker, msg.text = text
handleLegacyTranscript(speaker, text) ==
    IF SessionOff THEN UNCHANGED swVars
    ELSE
      /\ meetingTabId' = MeetTab
      /\ platform' = "teams"
      /\ IF text = <<>>
         THEN UNCHANGED <<fullTranscript, translateDirty, debounceTimer, armedTimers>>
         ELSE /\ Len(LegacyUpdate(fullTranscript, speaker, text)) <= MaxBlocks
              /\ fullTranscript' = LegacyUpdate(fullTranscript, speaker, text)
              /\ translateDirty' = TRUE
              /\ debounceTimer' = DEBOUNCE_FIRST_MS
              /\ armedTimers' = clearTimeout(armedTimers, debounceTimer) + 1
      /\ UNCHANGED <<active, translateTabId, spellingCorrection, lastVisibleCaptions,
                     pendingCorrectionId, committedBlocks, corrections,
                     clearAwaiting, storage, sinkMsg, bridgeBlocks>>

\* a transcript message handled with no other component taking a step
HandleLegacyTranscript(speaker, text) ==
    handleLegacyTranscript(speaker, text) /\ UNCHANGED <<ccVars, cmdVars, lifeVars>>

FlushSkipped_cleanOnly == ~translateDirty

\* flushToTranslate: if (!state.translateTabId || !translateDirty) return
FlushSkipped == translateTabId = NoTab \/ ~translateDirty

\* The debounce timer fires: flushToTranslate()
FlushToTranslate ==
    /\ armedTimers > 0
    /\ armedTimers' = armedTimers - 1
    /\ debounceTimer' = IF armedTimers = 1 THEN 0 ELSE debounceTimer
    /\ IF FlushSkipped
       THEN UNCHANGED <<translateDirty, sinkMsg, bridgeBlocks, storage,
                        pendingCorrectionId, corrections>>
       ELSE /\ translateDirty' = FALSE
            /\ IF fullTranscript = <<>>
               THEN UNCHANGED <<sinkMsg, bridgeBlocks, storage,
                                pendingCorrectionId, corrections>>
               ELSE /\ SendToSink([type |-> "translateSetBlocks",
                                   blocks |-> RecentBlocks(fullTranscript, FLUSH_BLOCKS)])
                    /\ storage' = IF Len(fullTranscript) % CHECKPOINT_EVERY = 0
                                  THEN saveState(active, translateTabId, meetingTabId,
                                                 platform, spellingCorrection,
                                                 fullTranscript)
                                  ELSE storage
                    /\ IF spellingCorrection
                       THEN \* correctLastBlockAsync(last) up to its await
                            /\ pendingCorrectionId < MaxCorrectionId
                            /\ pendingCorrectionId' = pendingCorrectionId + 1
                            /\ corrections' = corrections \cup
                                 { [ id    |-> pendingCorrectionId + 1,
                                     idx   |-> Len(fullTranscript),
                                     orig  |-> fullTranscript[Len(fullTranscript)].text,
                                     otext |-> fullTranscript[Len(fullTranscript)].text ] }
                       ELSE UNCHANGED <<pendingCorrectionId, corrections>>
    /\ UNCHANGED <<active, translateTabId, meetingTabId, platform, fullTranscript,
                   spellingCorrection, lastVisibleCaptions, committedBlocks,
                   clearAwaiting, ccVars, cmdVars, lifeVars>>

\* block.text of the block object held by correction c
BlockText(c) == IF c.idx > 0 THEN fullTranscript[c.idx].text ELSE c.otext

\* the acceptance test without the generation check
CorrectionAccepted_anyGeneration(id, currentId, corrected, originalText) ==
    corrected # <<>> /\ corrected # originalText

\* correctLastBlockAsync: id === pendingCorrectionId && corrected && corrected !== originalText
CorrectionAccepted(id, currentId, corrected, originalText) ==
    id = currentId /\ corrected # <<>> /\ corrected # originalText

\* correctLastBlockAsync(block) after its await: the provider call of
\* correctSpelling ended with outcome
ResolveCorrection(c, outcome) ==
    /\ c \in corrections
    /\ corrections' = corrections \ {c}
    /\ LET corrected == correctSpelling(c.orig, outcome) IN
       IF /\ outcome.kind # "throw"
          /\ CorrectionAccepted(c.id, pendingCorrectionId, corrected, c.orig)
          /\ BlockText(c) = c.orig
       THEN /\ fullTranscript' = IF c.idx > 0
                                 THEN [fullTranscript EXCEPT ![c.idx].text = corrected]
                                 ELSE fullTranscript
            /\ IF translateTabId # NoTab
               THEN SendToSink([type |-> "translateSetBlocks",
                                blocks |-> RecentBlocks(fullTranscript', CORRECTION_BLOCKS)])
               ELSE UNCHANGED <<sinkMsg, bridgeBlocks>>
       ELSE UNCHANGED <<fullTranscript, sinkMsg, bridgeBlocks>>
    /\ UNCHANGED <<active, translateTabId, meetingTabId, platform, spellingCorrection,
                   debounceTimer, armedTimers, lastVisibleCaptions, translateDirty,
                   pendingCorrectionId, committedBlocks, clearAwaiting, storage,
                   ccVars, cmdVars, lifeVars>>

\* clearConversationHistory() up to its first await (saveState), as called by
\* dispatchCommand
clearConversationHistory ==
    /\ ~clearAwaiting
    /\ pendingCorrectionId < MaxCorrectionId
    /\ fullTranscript' = <<>>
    /\ lastVisibleCaptions' = <<>>
    /\ committedBlocks' = <<>>
    /\ translateDirty' = FALSE
    /\ pendingCorrectionId' = pendingCorrectionId + 1
    /\ debounceTimer' = 0
    /\ armedTimers' = clearTimeout(armedTimers, debounceTimer)
    /\ corrections' = Orphaned(corrections, fullTranscript)
    /\ storage' = saveState(active, translateTabId, meetingTabId, platform,
                            spellingCorrection, <<>>)
    /\ clearAwaiting' = TRUE
    /\ UNCHANGED <<active, translateTabId, meetingTabId, platform,
                   spellingCorrection, sinkMsg, bridgeBlocks, ccVars>>

\* The clear command accepted by dispatchCommand
ClearConversationHistory == clearConversationHistory /\ UNCHANGED <<cmdVars, lifeVars>>

\* clearConversationHistory() after its awaits: clear the Google Translate text
ClearTranslateText ==
    /\ clearAwaiting
    /\ clearAwaiting' = FALSE
    /\ IF translateTabId # NoTab
       THEN SendToSink([type |-> "clearTranslation", blocks |-> <<>>])
       ELSE UNCHANGED <<sinkMsg, bridgeBlocks>>
    /\ UNCHANGED <<active, translateTabId, meetingTabId, platform, fullTranscript,
                   spellingCorrection, debounceTimer, armedTimers, lastVisibleCaptions,
                   translateDirty, pendingCorrectionId, committedBlocks,
                   corrections, storage, ccVars, cmdVars, lifeVars>>

\* handleActivate: spell is the spellingCorrection setting, created tells
\* whether chrome.tabs.create succeeded
HandleActivate(spell, created) ==
    /\ fullTranscript' = <<>>
    /\ lastVisibleCaptions' = <<>>
    /\ translateDirty' = FALSE
    /\ committedBlocks' = <<>>
    /\ corrections' = Orphaned(corrections, fullTranscript)
    /\ spellingCorrection' = spell
    /\ IF created
       THEN /\ translateTabId' = TranslateTab
            /\ active' = TRUE
            /\ sinkMsg' = NoMsg        \* a new page with a new bridge
            /\ bridgeBlocks' = <<>>
            /\ storage' = saveState(TRUE, TranslateTab, meetingTabId, platform,
                                    spell, <<>>)
       ELSE UNCHANGED <<translateTabId, active, sinkMsg, bridgeBlocks, storage>>
    /\ UNCHANGED <<meetingTabId, platform, debounceTimer, armedTimers, pendingCorrectionId,
                   clearAwaiting, ccVars, cmdVars, lifeVars>>

\* a deactivate that only turns state.active off
HandleDeactivate_flagOnly ==
    /\ pendingCorrectionId < MaxCorrectionId
    /\ active' = FALSE
    /\ storage' = saveState(FALSE, translateTabId, meetingTabId, platform,
                            spellingCorrection, fullTranscript)
    /\ tabInbox' = (tabInbox \/ (meetingTabId # NoTab /\ listening))
    /\ trackInbox' = (trackInbox \/ (meetingTabId # NoTab /\ trackState # "none"))
    /\ UNCHANGED <<platform, meetingTabId, fullTranscript, lastVisibleCaptions,
                   translateDirty, committedBlocks, pendingCorrectionId, corrections,
                   translateTabId, sinkMsg, bridgeBlocks,
                   spellingCorrection, debounceTimer, armedTimers, clearAwaiting,
                   captureVars, listening, intervals, clipboard, sentenceCount, discVars,
                   cmdVars, stateLoaded, loadsInFlight,
                   script, trackState, lastBatchJSON, scene, outbox>>

\* handleDeactivate
HandleDeactivate ==
    /\ pendingCorrectionId < MaxCorrectionId
    /\ active' = FALSE
    /\ platform' = "null"
    /\ meetingTabId' = NoTab
    /\ fullTranscript' = <<>>
    /\ lastVisibleCaptions' = <<>>
    /\ translateDirty' = FALSE
    /\ committedBlocks' = <<>>
    /\ pendingCorrectionId' = pendingCorrectionId + 1
    /\ corrections' = Orphaned(corrections, fullTranscript)
    /\ translateTabId' = NoTab         \* chrome.tabs.remove
    /\ sinkMsg' = NoMsg
    /\ bridgeBlocks' = <<>>
    /\ storage' = saveState(FALSE, NoTab, NoTab, "null", spellingCorrection, <<>>)
    \* safeSendTab(meetingTab, {type: 'rteDeactivated'})
    /\ tabInbox' = (tabInbox \/ (meetingTabId # NoTab /\ listening))
    /\ trackInbox' = (trackInbox \/ (meetingTabId # NoTab /\ trackState # "none"))
    /\ UNCHANGED <<spellingCorrection, debounceTimer, armedTimers, clearAwaiting, captureVars,
                   listening, intervals, clipboard, sentenceCount, discVars,
                   cmdVars, stateLoaded, loadsInFlight,
                   script, trackState, lastBatchJSON, scene, outbox>>

\* chrome.tabs.onRemoved for the translate tab
TranslateTabRemoved ==
    /\ translateTabId # NoTab
    /\ translateTabId' = NoTab
    /\ sinkMsg' = NoMsg
    /\ bridgeBlocks' = <<>>
    /\ storage' = saveState(active, NoTab, meetingTabId, platform,
                            spellingCorrection, fullTranscript)
    /\ UNCHANGED <<active, meetingTabId, platform, fullTranscript, spellingCorrection,
                   debounceTimer, armedTimers, lastVisibleCaptions, translateDirty,
                   pendingCorrectionId, committedBlocks, corrections,
                   clearAwaiting, ccVars, cmdVars, lifeVars>>

\* chrome.tabs.onRemoved for the meeting tab
MeetingTabRemoved ==
    /\ meetingTabId # NoTab
    /\ meetingTabId' = NoTab
    /\ platform' = "null"
    /\ storage' = saveState(active, translateTabId, NoTab, "null",
                            spellingCorrection, fullTranscript)
    /\ UNCHANGED <<active, translateTabId, fullTranscript, spellingCorrection,
                   debounceTimer, armedTimers, lastVisibleCaptions, translateDirty,
                   pendingCorrectionId, committedBlocks, corrections,
                   clearAwaiting, sinkMsg, bridgeBlocks, ccVars, cmdVars, lifeVars>>

-----------------------------------------------------------------------------
(* Specifications of the service worker *)

\* A meeting whose captions show one line at a time
OneLineBatches ==
    {<<>>} \cup { <<Block("A", Rep("h", 8))>>, <<Block("A", Rep("h", 9))>>,
                  <<Block("B", Rep("w", 8))>> }

CaptionBatch == \E captions \in OneLineBatches : HandleCaptionBatch(captions)

CaptionBatchWide == \E captions \in Batches : HandleCaptionBatch(captions)

LegacyTranscript == \E s \in Speakers, t \in Texts : HandleLegacyTranscript(s, t)

CorrectionDone ==
    \E c \in corrections, outcome \in ProviderOutcomes : ResolveCorrection(c, outcome)

Activate == \E spell \in BOOLEAN : HandleActivate(spell, TRUE)

ActivateOrFail == \E spell \in BOOLEAN, created \in BOOLEAN : HandleActivate(spell, created)

\* Spec: a session on a batch platform (Meet, Teams v2) with the flush timer,
\* the spelling correction and the translate tab.
Next ==
    \/ Activate
    \/ HandleDeactivate
    \/ CaptionBatch
    \/ FlushToTranslate
    \/ CorrectionDone
    \/ ClearConversationHistory
    \/ ClearTranslateText
    \/ TranslateTabRemoved

Spec == Init /\ [][Next]_vars

\* SpecCapture: the diff-and-commit path alone, with up to two visible lines
\* of two speakers per batch.
NextCapture ==
    \/ Activate
    \/ HandleDeactivate
    \/ CaptionBatchWide
    \/ ClearConversationHistory
    \/ ClearTranslateText

SpecCapture == Init /\ [][NextCapture]_vars

\* SpecLegacy: a session on a platform whose content script sends single
\* transcript messages (Teams v1, Zoom).
NextLegacy ==
    \/ Activate
    \/ HandleDeactivate
    \/ LegacyTranscript
    \/ FlushToTranslate
    \/ CorrectionDone
    \/ ClearConversationHistory
    \/ ClearTranslateText
    \/ MeetingTabRemoved

SpecLegacy == Init /\ [][NextLegacy]_vars

\* SpecGrow: one session in which a single visible line appears, only grows by
\* prefix extension (or is re-sent unchanged) and then disappears.
GrowsFrom(old, captions) ==
    IF old = <<>>
    THEN committedBlocks = <<>> /\ Len(captions) <= 1
    ELSE \/ captions = <<>>
         \/ /\ Len(captions) = 1
            /\ captions[1].speaker = old[1].speaker
            /\ StartsWith(captions[1].text, old[1].text)

GrowBatch ==
    /\ active
    /\ Len(lastVisibleCaptions) <= 1
    /\ \E captions \in Batches :
          /\ GrowsFrom(lastVisibleCaptions, captions)
          /\ HandleCaptionBatch(captions)

StartSession ==
    /\ ~active
    /\ Activate

NextGrow ==
    \/ StartSession
    \/ GrowBatch
    \/ FlushToTranslate
    \/ CorrectionDone
    \/ TranslateTabRemoved

SpecGrow == Init /\ [][NextGrow]_vars

\* SpecCommit: a session whose visible line is longer than the prefix that
\* commitCaption compares
LongTexts == { Rep("h", COMMIT_PREFIX_LEN), Rep("h", COMMIT_PREFIX_LEN + 1),
               Rep("h", COMMIT_PREFIX_LEN) \o <<"x">> }

LongLineBatches ==
    {<<>>, <<Block("B", Rep("w", 8))>>} \cup { <<Block("A", t)>> : t \in LongTexts }

LongLineBatch == \E captions \in LongLineBatches : HandleCaptionBatch(captions)

NextCommit ==
    \/ Activate
    \/ HandleDeactivate
    \/ LongLineBatch
    \/ FlushToTranslate

SpecCommit == Init /\ [][NextCommit]_vars

-----------------------------------------------------------------------------
(* Service worker: commands and streamed assist responses *)

MaxQueries == 2
MaxChunks == 1
MaxClock == 1500

\* the commands of the manifest and one it does not know
Commands ==
    {"clear-translate", "copy-captions", "generate-question",
     "generate-detailed-answer", "toggle-overlay"}

\* typeMap[cmd]; "" stands for undefined
typeMap(cmd) ==
    CASE cmd = "generate-question" -> "question"
      [] cmd = "generate-simple-answer" -> "simple-answer"
      [] cmd = "generate-detailed-answer" -> "detailed-answer"
      [] OTHER -> ""

\* Time between two calls of dispatchCommand
Delays == {0, COMMAND_DEBOUNCE_MS - 1, COMMAND_DEBOUNCE_MS}

\* Errors thrown inside streamAIResponse / streamSSE
StreamErrors == {"No API key configured. Set your key in extension settings.",
                 "API 500", "network error"}

TabMsg(type, mode, content) == [type |-> type, mode |-> mode, content |-> content]

\* the debounce test of dispatchCommand, never dropping
CommandDropped_never(cmd, time) == FALSE

\* cmd === lastCommandName && (now - lastCommandTime) < COMMAND_DEBOUNCE_MS
CommandDropped(cmd, time) ==
    cmd = lastCommandName /\ (time - lastCommandTime) < COMMAND_DEBOUNCE_MS

\* A query (one call of dispatchCommand for an assist command): cmd, the
\* target tab, where the call stands, the messages it sent to the tab with
\* safeSendTab and whether the call ended by throwing
Query(cmd, tab, phase, sent) ==
    [cmd |-> cmd, tab |-> tab, phase |-> phase, sent |-> sent, raised |-> FALSE]

\* dispatchCommand from "if (!tab) return" to the call of streamAIResponse
StartStream(q, tab) ==
    IF tab = NoTab THEN [q EXCEPT !.phase = "returned"]
    ELSE IF typeMap(q.cmd) = "" THEN [q EXCEPT !.tab = tab, !.phase = "returned"]
    ELSE [q EXCEPT !.tab = tab, !.phase = "settings",
                   !.sent = Append(q.sent, TabMsg("streamStart", typeMap(q.cmd), ""))]

\* the try/catch of dispatchCommand sending streamEnd in a finally clause
SettleStream_finally(q, err) ==
    IF err = ""
    THEN [q EXCEPT !.phase = "closed",
                   !.sent = Append(q.sent, TabMsg("streamEnd", "", ""))]
    ELSE [q EXCEPT !.phase = "closed",
                   !.sent = q.sent \o << TabMsg("showOverlayError", typeMap(q.cmd), err),
                                         TabMsg("streamEnd", "", "") >>]

\* dispatchCommand without its catch clause
SettleStream_uncaught(q, err) ==
    IF err = ""
    THEN [q EXCEPT !.phase = "closed",
                   !.sent = Append(q.sent, TabMsg("streamEnd", "", ""))]
    ELSE [q EXCEPT !.phase = "closed", !.raised = TRUE]

\* the try/catch of dispatchCommand: streamAIResponse returned (err = "") or
\* threw an Error with message err; the overlay content is "Error: " + err
SettleStream(q, err) ==
    IF err = ""
    THEN [q EXCEPT !.phase = "closed",
                   !.sent = Append(q.sent, TabMsg("streamEnd", "", ""))]
    ELSE [q EXCEPT !.phase = "closed",
                   !.sent = Append(q.sent, TabMsg("showOverlayError", typeMap(q.cmd), err))]

\* state.meetingTabId after "if (!state.meetingTabId && tab) state.meetingTabId = tab"
RememberTab(tab) == IF meetingTabId = NoTab /\ tab # NoTab THEN tab ELSE meetingTabId

swRest ==
    <<active, translateTabId, platform, fullTranscript, spellingCorrection,
      debounceTimer, armedTimers, lastVisibleCaptions, translateDirty, pendingCorrectionId,
      committedBlocks, corrections, clearAwaiting, storage, sinkMsg, bridgeBlocks>>

\* dispatchCommand(cmd, senderTabId) called dt after the previous call, up to
\* its first await
DispatchCommand(cmd, senderTabId, dt) ==
    /\ now + dt <= MaxClock
    /\ now' = now + dt
    /\ UNCHANGED lifeVars
    /\ IF CommandDropped(cmd, now + dt)
       THEN UNCHANGED <<swVars, ccVars, lastCommandName, lastCommandTime, queries>>
       ELSE
         /\ lastCommandName' = cmd
         /\ lastCommandTime' = now + dt
         /\ IF cmd = "clear-translate"
            THEN clearConversationHistory /\ UNCHANGED queries
            ELSE IF cmd = "copy-captions"
            THEN UNCHANGED <<swVars, ccVars, queries>>
            ELSE LET tab == IF meetingTabId # NoTab THEN meetingTabId ELSE senderTabId
                     q == Query(cmd, tab, "tabQuery", <<>>)
                 IN  /\ Len(queries) < MaxQueries
                     /\ queries' = Append(queries,
                                          IF tab = NoTab THEN q ELSE StartStream(q, tab))
                     /\ meetingTabId' = RememberTab(tab)
                     /\ UNCHANGED <<swRest, ccVars>>

\* dispatchCommand after "await chrome.tabs.query": activeTab is the id of the
\* active tab (NoTab if there is none or the query throws)
ResolveTab(i, activeTab) ==
    /\ i \in 1..Len(queries)
    /\ queries[i].phase = "tabQuery"
    /\ queries' = [queries EXCEPT ![i] = StartStream(queries[i], activeTab)]
    /\ meetingTabId' = RememberTab(activeTab)
    /\ UNCHANGED <<swRest, ccVars, lifeVars, lastCommandName, lastCommandTime, now>>

\* streamAIResponse / streamSSE pass an await without throwing: the settings
\* hold a key, the response is OK
StreamAdvance(i) ==
    /\ i \in 1..Len(queries)
    /\ queries[i].phase \in {"settings", "fetch"}
    /\ queries' = [queries EXCEPT ![i].phase =
                      IF queries[i].phase = "settings" THEN "fetch" ELSE "reading"]
    /\ UNCHANGED <<swVars, ccVars, lifeVars, lastCommandName, lastCommandTime, now>>

\* streamSSE reads a data line with a token: safeSendTab(tabId, streamChunk)
StreamChunk(i) ==
    /\ i \in 1..Len(queries)
    /\ queries[i].phase = "reading"
    /\ Len(queries[i].sent) <= MaxChunks
    /\ queries' = [queries EXCEPT ![i].sent =
                      Append(queries[i].sent, TabMsg("streamChunk", "", "token"))]
    /\ UNCHANGED <<swVars, ccVars, lifeVars, lastCommandName, lastCommandTime, now>>

\* streamSSE returns: the reader is done or "[DONE]" was read
StreamDone(i) ==
    /\ i \in 1..Len(queries)
    /\ queries[i].phase = "reading"
    /\ queries' = [queries EXCEPT ![i] = SettleStream(queries[i], "")]
    /\ UNCHANGED <<swVars, ccVars, lifeVars, lastCommandName, lastCommandTime, now>>

\* streamAIResponse throws err: no key (at the settings), a non-OK response
\* or a failed fetch (at the fetch), a failed read (while reading)
StreamThrows(i, err) ==
    /\ i \in 1..Len(queries)
    /\ \/ queries[i].phase = "settings" /\ err = "No API key configured. Set your key in extension settings."
       \/ queries[i].phase = "fetch" /\ err = "API 500"
       \/ queries[i].phase = "reading" /\ err = "network error"
    /\ queries' = [queries EXCEPT ![i] = SettleStream(queries[i], err)]
    /\ UNCHANGED <<swVars, ccVars, lifeVars, lastCommandName, lastCommandTime, now>>

Command ==
    \E cmd \in Commands \ {"copy-captions"}, senderTabId \in {NoTab, MeetTab}, dt \in Delays :
        DispatchCommand(cmd, senderTabId, dt)

TabResolved == \E i \in 1..MaxQueries, activeTab \in {NoTab, MeetTab} : ResolveTab(i, activeTab)

StreamStep == \E i \in 1..MaxQueries : StreamAdvance(i) \/ StreamChunk(i)

StreamSettled ==
    \E i \in 1..MaxQueries : StreamDone(i) \/ \E err \in StreamErrors : StreamThrows(i, err)

NextCommand ==
    \/ ClearTranslateText
    \/ Command
    \/ TabResolved
    \/ StreamStep
    \/ StreamSettled

SpecCommand == Init /\ [][NextCommand]_vars

\* A session in which one assist command is issued at a time
AssistCommand ==
    /\ \A i \in 1..Len(queries) : queries[i].phase \in {"closed", "returned"}
    /\ \E cmd \in {"generate-question", "generate-detailed-answer"} :
          DispatchCommand(cmd, MeetTab, COMMAND_DEBOUNCE_MS)

NextAssist ==
    \/ StartSession
    \/ GrowBatch
    \/ AssistCommand
    \/ StreamStep
    \/ StreamSettled

SpecAssist == Init /\ [][NextAssist]_vars

\* every await of a stream ends: the provider answers or the request fails
FairSpecCommand == SpecCommand /\ WF_vars(StreamStep) /\ WF_vars(StreamSettled) /\ WF_vars(TabResolved)

-----------------------------------------------------------------------------
(* Service worker: persistence across a restart of the worker *)

\* loadState's validation of a restored tab id: chrome.tabs.get(id) fails for
\* a tab that is gone and the id becomes null
Revalidate(id, alive) == IF id # NoTab /\ ~alive THEN NoTab ELSE id

\* The browser ends the idle worker: every module-level variable is back at
\* its initial value, chrome.storage.local and the tabs are untouched
Restart ==
    /\ stateLoaded
    /\ active' = FALSE
    /\ translateTabId' = NoTab
    /\ meetingTabId' = NoTab
    /\ platform' = "null"
    /\ fullTranscript' = <<>>
    /\ spellingCorrection' = TRUE
    /\ debounceTimer' = 0
    /\ armedTimers' = 0
    /\ lastVisibleCaptions' = <<>>
    /\ translateDirty' = FALSE
    /\ pendingCorrectionId' = 0
    /\ committedBlocks' = <<>>
    /\ corrections' = {}
    /\ clearAwaiting' = FALSE
    /\ lastCommandName' = ""
    /\ lastCommandTime' = 0
    /\ queries' = <<>>
    /\ stateLoaded' = FALSE
    /\ loadsInFlight' = 1          \* the top-level loadState() call
    /\ UNCHANGED <<storage, sinkMsg, bridgeBlocks, now, ccVars, trackVars>>

\* A loadState() call completes; translateAlive and meetingAlive are the
\* outcomes of chrome.tabs.get for the restored ids
LoadState(translateAlive, meetingAlive) ==
    /\ loadsInFlight > 0
    /\ loadsInFlight' = loadsInFlight - 1
    /\ stateLoaded' = TRUE
    /\ IF storage.stored
       THEN /\ active' = storage.active
            /\ spellingCorrection' = storage.spellingCorrection
            /\ fullTranscript' = storage.transcript
            /\ translateTabId' = Revalidate(storage.translateTabId, translateAlive)
            /\ meetingTabId' = Revalidate(storage.meetingTabId, meetingAlive)
            /\ platform' = IF storage.meetingTabId # NoTab /\ ~meetingAlive
                           THEN "null" ELSE storage.platform
       ELSE UNCHANGED <<active, spellingCorrection, fullTranscript,
                        translateTabId, meetingTabId, platform>>
    /\ UNCHANGED <<debounceTimer, armedTimers, lastVisibleCaptions, translateDirty,
                   pendingCorrectionId, committedBlocks, corrections,
                   clearAwaiting, storage, sinkMsg, bridgeBlocks, ccVars, cmdVars, trackVars>>

Load == \E translateAlive, meetingAlive \in BOOLEAN :
           LoadState(translateAlive, meetingAlive)

\* A transcript of n blocks by alternating speakers
LongTranscript(n) ==
    [i \in 1..n |-> Block(IF i % 2 = 1 THEN "A" ELSE "B", Rep("h", MIN_CORRECT_LEN))]

TranscriptLengths == {0, 1, PERSIST_BLOCKS - 1, PERSIST_BLOCKS, PERSIST_BLOCKS + 1}

\* An active session in which n blocks are committed and no debounce has
\* yet fired; the storage holds what handleActivate saved
InitRestart ==
    /\ \E n \in TranscriptLengths, spell \in BOOLEAN :
          /\ fullTranscript = LongTranscript(n)
          /\ committedBlocks = LongTranscript(n)
          /\ spellingCorrection = spell
          /\ translateDirty = (n > 0)
          /\ debounceTimer = IF n > 0 THEN DEBOUNCE_FIRST_MS ELSE 0
          /\ armedTimers = IF n > 0 THEN 1 ELSE 0
          /\ storage = saveState(TRUE, TranslateTab, NoTab, "null", spell, <<>>)
    /\ active = TRUE
    /\ translateTabId = TranslateTab
    /\ meetingTabId = MeetTab
    /\ platform = "meet"
    /\ lastVisibleCaptions = <<>>
    /\ pendingCorrectionId = 0
    /\ corrections = {}
    /\ clearAwaiting = FALSE
    /\ sinkMsg = NoMsg
    /\ bridgeBlocks = <<>>
    /\ CcIdle
    /\ CmdInit
    /\ Loaded
    /\ TrackIdle

\* every listener awaits loadState before it handles its event
NextRestart ==
    \/ stateLoaded /\ FlushToTranslate
    \/ stateLoaded /\ CorrectionDone
    \/ stateLoaded /\ TranslateTabRemoved
    \/ stateLoaded /\ MeetingTabRemoved
    \/ stateLoaded /\ HandleDeactivate
    \/ stateLoaded /\ Activate
    \/ stateLoaded /\ ClearConversationHistory
    \/ stateLoaded /\ ClearTranslateText
    \/ Restart
    \/ Load

SpecRestart == InitRestart /\ [][NextRestart]_vars

\* chrome.alarms.onAlarm for the keep-alive alarm of an active session
KeepAliveAlarm ==
    /\ active
    /\ storage' = saveState(active, translateTabId, meetingTabId, platform,
                            spellingCorrection, fullTranscript)
    /\ UNCHANGED <<active, translateTabId, meetingTabId, platform, fullTranscript,
                   spellingCorrection, debounceTimer, armedTimers, lastVisibleCaptions,
                   translateDirty, pendingCorrectionId, committedBlocks, corrections,
                   clearAwaiting, sinkMsg, bridgeBlocks, ccVars, cmdVars, lifeVars>>

\* SpecResume: a session on a batch platform whose worker is ended by the
\* browser and started again while the meeting goes on
NextResume ==
    \/ stateLoaded /\ StartSession
    \/ stateLoaded /\ CaptionBatch
    \/ stateLoaded /\ FlushToTranslate
    \/ stateLoaded /\ KeepAliveAlarm
    \/ Restart
    \/ Load

SpecResume == Init /\ [][NextResume]_vars

\* The onMessage listener while stateLoaded is false: a getStatus message of
\* the popup starts another loadState() and is routed when that call is
\* done; route answers getStatus from the state and changes nothing
StatusWhileLoading ==
    /\ ~stateLoaded
    /\ loadsInFlight < MaxLoads
    /\ loadsInFlight' = loadsInFlight + 1
    /\ UNCHANGED <<stateLoaded, trackVars, swVars, ccVars, cmdVars>>

\* SpecLoad: as SpecResume, with messages that arrive while the start-up
\* loadState() is in flight; a message that arrives when stateLoaded is
\* true is routed at once, also while another loadState() is in flight
NextLoad ==
    \/ stateLoaded /\ StartSession
    \/ stateLoaded /\ CaptionBatch
    \/ stateLoaded /\ KeepAliveAlarm
    \/ Restart
    \/ StatusWhileLoading
    \/ Load

SpecLoad == Init /\ [][NextLoad]_vars

\* SpecCheckpoint: a long session on a batch platform, started when n blocks
\* are committed, flushed and nothing is visible; the storage holds what
\* the last checkpoint or handleActivate saved
CheckpointStarts == {CHECKPOINT_EVERY - 2, CHECKPOINT_EVERY - 1}

InitCheckpoint ==
    /\ \E n \in CheckpointStarts :
          /\ fullTranscript = LongTranscript(n)
          /\ committedBlocks = LongTranscript(n)
    /\ storage = saveState(TRUE, TranslateTab, NoTab, "null", FALSE, <<>>)
    /\ active = TRUE
    /\ translateTabId = TranslateTab
    /\ meetingTabId = MeetTab
    /\ platform = "meet"
    /\ spellingCorrection = FALSE
    /\ translateDirty = FALSE
    /\ debounceTimer = 0
    /\ armedTimers = 0
    /\ lastVisibleCaptions = <<>>
    /\ pendingCorrectionId = 0
    /\ corrections = {}
    /\ clearAwaiting = FALSE
    /\ sinkMsg = [type |-> "translateSetBlocks",
                  blocks |-> RecentBlocks(fullTranscript, FLUSH_BLOCKS)]
    /\ bridgeBlocks = RecentBlocks(fullTranscript, FLUSH_BLOCKS)
    /\ CcIdle
    /\ CmdInit
    /\ Loaded
    /\ TrackIdle

LongSessionBatch ==
    \E captions \in OneLineBatches : handleCaptionBatch(captions, MaxCheckpointBlocks)

NextCheckpoint ==
    \/ LongSessionBatch
    \/ FlushToTranslate

SpecCheckpoint == InitCheckpoint /\ [][NextCheckpoint]_vars

-----------------------------------------------------------------------------
(* Capture scripts of the meeting page: meet-transcript.js, the Teams v2   *)
(* script (src/unnamed/part_004) and the Teams script (part_005); the      *)
(* Teams v1 script (part_003) sends single transcript messages.            *)

MaxOutbox == 2

Scripts == {"meet", "teams-v2", "teams", "teams-v1"}

\* What extractCaptions() finds as the meeting goes on: nothing, a line, no
\* line, the same line again, its revision, a line of another speaker
Scenes ==
    << <<>>,
       <<Block("A", Rep("h", 8))>>,
       <<>>,
       <<Block("A", Rep("h", 8))>>,
       <<Block("A", Rep("h", 9))>>,
       <<Block("B", Rep("w", 8))>> >>

pageCaptions == Scenes[scene]

\* JSON.stringify of one caption object
StringifyCaption(c) ==
    <<"{", "s", ":">> \o <<c.speaker>> \o <<",", "t", ":">> \o c.text \o <<"}">>

RECURSIVE StringifyList(_)
StringifyList(captions) ==
    IF captions = <<>> THEN <<>>
    ELSE StringifyCaption(Head(captions)) \o
         (IF Len(captions) > 1 THEN <<",">> ELSE <<>>) \o StringifyList(Tail(captions))

\* JSON.stringify(captions)
Stringify(captions) == <<"[">> \o StringifyList(captions) \o <<"]">>

BatchMsg(captions) ==
    [type |-> "captionBatch", captions |-> captions, speaker |-> "", text |-> <<>>]

TranscriptMsg(speaker, text) ==
    [type |-> "transcript", captions |-> <<>>, speaker |-> speaker, text |-> text]

\* whether sendBatch of script sc sends a list that differs from the last
\* one: the Teams v2 script leaves out the empty list
SendsBatch(sc, captions) == sc # "teams-v2" \/ captions # <<>>

\* readyCheck finds the page ready: start()
ScriptReady ==
    /\ trackState = "loading"
    /\ trackState' = "tracking"
    /\ UNCHANGED <<script, lastBatchJSON, scene, outbox, trackInbox,
                   stateLoaded, loadsInFlight, swVars, ccVars, cmdVars>>

\* the captions shown by the page change
PageChange ==
    /\ trackState # "none"
    /\ scene < Len(Scenes)
    /\ scene' = scene + 1
    /\ UNCHANGED <<script, trackState, lastBatchJSON, outbox, trackInbox,
                   stateLoaded, loadsInFlight, swVars, ccVars, cmdVars>>

\* sendBatch(), called by the observer or the interval, when the list changed
SendBatch ==
    /\ script # "teams-v1"
    /\ trackState = "tracking"
    /\ Stringify(pageCaptions) # lastBatchJSON
    /\ lastBatchJSON' = Stringify(pageCaptions)
    /\ IF SendsBatch(script, pageCaptions)
       THEN /\ Len(outbox) < MaxOutbox
            /\ outbox' = Append(outbox, BatchMsg(pageCaptions))
       ELSE UNCHANGED outbox
    /\ UNCHANGED <<script, trackState, scene, trackInbox,
                   stateLoaded, loadsInFlight, swVars, ccVars, cmdVars>>

\* sendNewContent of the Teams v1 script sends a transcript message
SendTranscript(speaker, text) ==
    /\ script = "teams-v1"
    /\ trackState = "tracking"
    /\ Len(outbox) < MaxOutbox
    /\ outbox' = Append(outbox, TranscriptMsg(speaker, text))
    /\ UNCHANGED <<script, trackState, lastBatchJSON, scene, trackInbox,
                   stateLoaded, loadsInFlight, swVars, ccVars, cmdVars>>

\* the script's onMessage listener receives rteDeactivated: stop(); the
\* listener of the Teams v1 script answers the ping only
TrackReceiveDeactivated ==
    /\ trackInbox
    /\ trackInbox' = FALSE
    /\ IF script = "teams-v1"
       THEN UNCHANGED <<trackState, lastBatchJSON>>
       ELSE /\ trackState' = IF trackState = "tracking" THEN "stopped" ELSE trackState
            /\ lastBatchJSON' = <<>>
    /\ UNCHANGED <<script, scene, outbox, stateLoaded, loadsInFlight,
                   swVars, ccVars, cmdVars>>

\* route(msg): the worker's onMessage listener receives the oldest message
Route ==
    /\ stateLoaded
    /\ outbox # <<>>
    /\ outbox' = Tail(outbox)
    /\ LET msg == Head(outbox) IN
       IF msg.type = "captionBatch"
       THEN captionBatch(msg.captions, MaxBlocks)
       ELSE handleLegacyTranscript(msg.speaker, msg.text)
    /\ UNCHANGED <<script, trackState, lastBatchJSON, scene, trackInbox,
                   stateLoaded, loadsInFlight, ccVars, cmdVars>>

TeamsTranscript == SendTranscript("B", Rep("w", 8))

\* SpecTrack: a meeting page with one of the capture scripts, and the
\* session switched on and off from the popup
InitTrack ==
    /\ SwInit /\ CcIdle /\ CmdInit /\ Loaded
    /\ script \in Scripts
    /\ trackState = "loading"
    /\ lastBatchJSON = <<>>
    /\ scene = 1
    /\ outbox = <<>>
    /\ trackInbox = FALSE

NextTrack ==
    \/ ScriptReady
    \/ PageChange
    \/ SendBatch
    \/ TeamsTranscript
    \/ TrackReceiveDeactivated
    \/ Route
    \/ Activate
    \/ HandleDeactivate

SpecTrack == InitTrack /\ [][NextTrack]_vars

\* the browser runs ready callbacks, observer callbacks and intervals, and
\* delivers runtime messages
FairSpecTrack ==
    /\ SpecTrack
    /\ WF_vars(ScriptReady)
    /\ WF_vars(SendBatch)
    /\ WF_vars(TrackReceiveDeactivated)
    /\ WF_vars(Route)

-----------------------------------------------------------------------------
(* Part 2: caption copyer (caption-copyer.js)                               *)
(* A text is a sequence of characters; words are separated by spaces and    *)
(* lines by "\n".                                                           *)

MaxCaptured == 2
MaxPollLines == 2

MAX_ENTRIES == 10000
CAPTION_WORDS == 5
CAPTION_AVG_WORD == 2
VISIBLE_MIN_LEN == 10
SIMILAR_MIN_WORDS == 3
SIMILAR_PERCENT == 60
NAME_MAX_LEN == 40

Whitespace == {" ", "\n"}

\* the characters [a-z0-9] of the model's alphabet
Alnum == {"a", "b", "c", "d", "s", "t"}

\* String.prototype.toLowerCase, character by character
toLowerCase(s) ==
    [i \in 1..Len(s) |->
        CASE s[i] = "A" -> "a"
          [] s[i] = "S" -> "s"
          [] s[i] = "T" -> "t"
          [] OTHER -> s[i]]

\* String.prototype.trim
RECURSIVE TrimStart(_)
TrimStart(s) ==
    IF s # <<>> /\ Head(s) \in Whitespace THEN TrimStart(Tail(s)) ELSE s

RECURSIVE TrimEnd(_)
TrimEnd(s) ==
    IF s # <<>> /\ s[Len(s)] \in Whitespace
    THEN TrimEnd(SubSeq(s, 1, Len(s) - 1))
    ELSE s

Trim(s) == TrimEnd(TrimStart(s))

\* number of leading characters of s that are not in seps
RunLen(s, seps) ==
    LET stops == {i \in 1..Len(s) : s[i] \in seps}
    IN  IF stops = {} THEN Len(s)
        ELSE (CHOOSE i \in stops : \A j \in stops : i <= j) - 1

\* split(/\s+/) without the empty pieces
RECURSIVE Words(_)
Words(s) ==
    IF s = <<>> THEN <<>>
    ELSE IF Head(s) \in Whitespace THEN Words(Tail(s))
    ELSE LET n == RunLen(s, Whitespace)
         IN  <<SubSeq(s, 1, n)>> \o Words(SubSeq(s, n + 1, Len(s)))

\* split('\n').map(l => l.trim()).filter(Boolean)
RECURSIVE Lines(_)
Lines(s) ==
    IF s = <<>> THEN <<>>
    ELSE LET n == RunLen(s, {"\n"})
             line == Trim(SubSeq(s, 1, n))
             rest == Lines(SubSeq(s, n + 2, Len(s)))
         IN  IF line = <<>> THEN rest ELSE <<line>> \o rest

\* Array.prototype.join(' ')
RECURSIVE JoinSpace(_)
JoinSpace(parts) ==
    IF parts = <<>> THEN <<>>
    ELSE IF Len(parts) = 1 THEN parts[1]
    ELSE parts[1] \o <<" ">> \o JoinSpace(Tail(parts))

\* a.indexOf(': '), 0-based, -1 when absent
IndexOfSep(s) ==
    LET hits == {i \in 1..(Len(s) - 1) : s[i] = ":" /\ s[i + 1] = " "}
    IN  IF hits = {} THEN -1
        ELSE (CHOOSE i \in hits : \A j \in hits : i <= j) - 1

RECURSIVE SumLen(_)
SumLen(ws) == IF ws = <<>> THEN 0 ELSE Len(Head(ws)) + SumLen(Tail(ws))

\* looksLikeCaptions.  The texts of the model hold no "_" (icon ligatures)
\* and none of the words of the keyboard-navigation test, so those two
\* rejections cannot fire and are left out; the average-word-length test is
\* kept: avg < 2 with avg = SumLen / length.
looksLikeCaptions(text) ==
    LET trimmed == Trim(text)
        words == Words(trimmed)
    IN  /\ text # <<>>
        /\ trimmed # <<>>
        /\ ~(Len(words) > CAPTION_WORDS /\ SumLen(words) < CAPTION_AVG_WORD * Len(words))

prefixLen(a, b) ==
    LET max == Min(Len(a), Len(b))
        diffs == {i \in 1..max : a[i] # b[i]}
    IN  IF diffs = {} THEN max
        ELSE (CHOOSE i \in diffs : \A j \in diffs : i <= j) - 1

\* spkA / spkB of areSimilarEntries
SpeakerOf(a) ==
    LET sep == IndexOfSep(a) IN IF sep > 0 THEN SubSeq(a, 1, sep) ELSE <<>>

\* msgA / msgB of areSimilarEntries
MessageOf(a) ==
    LET sep == IndexOfSep(a)
    IN  toLowerCase(IF sep > 0 THEN SubSeq(a, sep + 3, Len(a)) ELSE a)

\* strip = w.replace(/[^a-z0-9]/g, '')
strip(w) == SelectSeq(w, LAMBDA c : c \in Alnum)

\* setA / setB of areSimilarEntries
WordSet(msg) ==
    LET ws == Words(msg)
    IN  {strip(ws[i]) : i \in 1..Len(ws)} \ {<<>>}

\* areSimilarEntries with a threshold of all the words of the smaller set
areSimilarEntries_allWords(a, b) ==
    LET spkA == SpeakerOf(a)
        spkB == SpeakerOf(b)
        msgA == MessageOf(a)
        msgB == MessageOf(b)
        setA == WordSet(msgA)
        setB == WordSet(msgB)
        smaller == IF Cardinality(setA) <= Cardinality(setB) THEN setA ELSE setB
        larger == IF Cardinality(setA) <= Cardinality(setB) THEN setB ELSE setA
    IN  IF spkA # <<>> /\ spkB # <<>> /\ spkA # spkB THEN FALSE
        ELSE IF StartsWith(msgA, msgB) \/ StartsWith(msgB, msgA) THEN TRUE
        ELSE IF Cardinality(setA) < SIMILAR_MIN_WORDS \/ Cardinality(setB) < SIMILAR_MIN_WORDS
             THEN FALSE
        ELSE Cardinality(smaller \cap larger) = Cardinality(smaller)

\* overlap / smaller.size >= 0.6 is compared in hundredths
areSimilarEntries(a, b) ==
    LET spkA == SpeakerOf(a)
        spkB == SpeakerOf(b)
        msgA == MessageOf(a)
        msgB == MessageOf(b)
        setA == WordSet(msgA)
        setB == WordSet(msgB)
        smaller == IF Cardinality(setA) <= Cardinality(setB) THEN setA ELSE setB
        larger == IF Cardinality(setA) <= Cardinality(setB) THEN setB ELSE setA
    IN  IF spkA # <<>> /\ spkB # <<>> /\ spkA # spkB THEN FALSE
        ELSE IF StartsWith(msgA, msgB) \/ StartsWith(msgB, msgA) THEN TRUE
        ELSE IF Cardinality(setA) < SIMILAR_MIN_WORDS \/ Cardinality(setB) < SIMILAR_MIN_WORDS
             THEN FALSE
        ELSE 100 * Cardinality(smaller \cap larger) >= SIMILAR_PERCENT * Cardinality(smaller)

\* stillVisible looking for an equal current text only
stillVisible_exactOnly(text, currentTexts) ==
    \E i \in 1..Len(currentTexts) : currentTexts[i] = text

\* common > Math.min(text.length, cur.length) * 0.6 is compared in hundredths
stillVisible(text, currentTexts) ==
    \E i \in 1..Len(currentTexts) :
        LET cur == currentTexts[i] IN
        \/ cur = text
        \/ StartsWith(cur, text)
        \/ /\ Len(text) > VISIBLE_MIN_LEN
           /\ Len(cur) > VISIBLE_MIN_LEN
           /\ 100 * prefixLen(text, cur) > SIMILAR_PERCENT * Min(Len(text), Len(cur))
        \/ areSimilarEntries(text, cur)

\* nameCandidate of formatEntry
NameCandidate(first) ==
    /\ Len(first) < NAME_MAX_LEN
    /\ IndexOfSep(first) = -1
    /\ first[Len(first)] \notin {".", "!", "?", ";", ","}

\* formatEntry: the text it returns
formatEntry(raw, known) ==
    LET lines == Lines(raw) IN
    IF Len(lines) >= 2 /\ NameCandidate(lines[1])
    THEN lines[1] \o <<":", " ">> \o JoinSpace(Tail(lines))
    ELSE IF Len(lines) = 1 /\ lines[1] \in known
    THEN lines[1] \o <<":">>
    ELSE JoinSpace(lines)

\* formatEntry: knownSpeakers after the call
formatEntryKnown(raw, known) ==
    LET lines == Lines(raw) IN
    IF Len(lines) >= 2 /\ NameCandidate(lines[1])
    THEN known \cup {lines[1]}
    ELSE known

Longer(text, last) == IF Len(text) > Len(last) THEN text ELSE last

\* pushEntry: capturedEntries after the call
pushEntry(entries, raw) ==
    LET text == Trim(raw) IN
    IF text = <<>> \/ ~looksLikeCaptions(text) THEN entries
    ELSE IF entries # <<>> /\ entries[Len(entries)] = text THEN entries
    ELSE IF /\ entries # <<>>
            /\ \/ StartsWith(text, entries[Len(entries)])
               \/ StartsWith(entries[Len(entries)], text)
               \/ areSimilarEntries(text, entries[Len(entries)])
    THEN [entries EXCEPT ![Len(entries)] = Longer(text, entries[Len(entries)])]
    ELSE LastN(Append(entries, text), MAX_ENTRIES)

\* the loop of diffAndStore over previousTexts; acc = [entries, known]
RECURSIVE StoreGone(_, _, _)
StoreGone(acc, prevs, current) ==
    IF prevs = <<>> THEN acc
    ELSE IF stillVisible(Head(prevs), current)
    THEN StoreGone(acc, Tail(prevs), current)
    ELSE StoreGone([entries |-> pushEntry(acc.entries, formatEntry(Head(prevs), acc.known)),
                    known |-> formatEntryKnown(Head(prevs), acc.known)],
                   Tail(prevs), current)

diffAndStore(entries, known, prevs, current) ==
    IF current = <<>> THEN [entries |-> entries, known |-> known]
    ELSE StoreGone([entries |-> entries, known |-> known], prevs, current)

\* ---- texts a caption container can show
Labelled(spk, msg) == <<spk, ":", " ">> \o msg

RawTexts ==
    { Labelled("S", <<"a", " ", "b">>),
      Labelled("S", <<"b", " ", "a">>),
      Labelled("S", <<"a", " ", "b", " ", "c">>),
      Labelled("S", <<"c", ",", " ", "b", " ", "A">>),
      Labelled("T", <<"a", " ", "b", " ", "c">>),
      <<"a", " ", "b", " ", "d">>,
      <<"S", "\n", "a", " ", "b", " ", "c">> }

\* extractTexts keeps the texts that look like captions
Extractions ==
    LET ok == {t \in RawTexts : looksLikeCaptions(t)}
    IN  UNION { [1..n -> ok] : n \in 0..MaxPollLines }

\* attachContainer(el, source)
attachContainer_keepPending(el) ==
    /\ captionContainer' = el
    /\ isDirty' = TRUE
    /\ previousTexts' = <<>>
    /\ UNCHANGED pendingCandidate

attachContainer(el) ==
    /\ captionContainer' = el
    /\ isDirty' = TRUE
    /\ previousTexts' = <<>>
    /\ pendingCandidate' = NoEl

\* attachContainer, called by the three container searches when none is attached
AttachContainer ==
    /\ intervals
    /\ captionContainer = NoEl
    /\ \E el \in SelectorEls : attachContainer(el)
    /\ UNCHANGED <<capturedEntries, knownSpeakers, copyVars, swVars, cmdVars, lifeVars,
                   documentEls, innerText, pendingCandidateText, pendingCandidateTs,
                   pageClock, mutationHits, textScanPrev, textScanHits>>

\* containerObserver callback
ContainerMutated ==
    /\ captionContainer # NoEl
    /\ ~isDirty
    /\ isDirty' = TRUE
    /\ UNCHANGED <<captionContainer, previousTexts, capturedEntries, knownSpeakers,
                   copyVars, discVars, swVars, cmdVars, lifeVars>>

\* poll; current = extractTexts(), inDocument = document.contains(captionContainer)
Poll(current, inDocument) ==
    /\ intervals
    /\ captionContainer # NoEl
    /\ isDirty
    /\ isDirty' = FALSE
    /\ IF ~inDocument
       THEN /\ captionContainer' = NoEl
            /\ previousTexts' = <<>>
            /\ UNCHANGED <<capturedEntries, knownSpeakers>>
       ELSE LET r == diffAndStore(capturedEntries, knownSpeakers, previousTexts, current) IN
            /\ Len(r.entries) <= MaxCaptured
            /\ capturedEntries' = r.entries
            /\ knownSpeakers' = r.known
            /\ previousTexts' = current
            /\ UNCHANGED captionContainer
    /\ UNCHANGED <<copyVars, discVars, swVars, cmdVars, lifeVars>>

PollCaptions == \E current \in Extractions : Poll(current, TRUE)

PollDetached == Poll(<<>>, FALSE)

\* boot() in a meeting page: the listeners are registered and the intervals
\* (the searches and poll) are started
Boot ==
    /\ ~listening
    /\ listening' = TRUE
    /\ intervals' = TRUE
    /\ UNCHANGED <<captureVars, tabInbox, clipboard, sentenceCount, discVars,
                   swVars, cmdVars, lifeVars>>

NextCopyer == Boot \/ AttachContainer \/ ContainerMutated \/ PollCaptions \/ PollDetached

SpecCopyer == Init /\ [][NextCopyer]_vars

-----------------------------------------------------------------------------
(* Copying: doCopy of the caption copyer and getTranscriptForCopy *)

SentenceCounts == {"1", "5", "all"}

\* Number(sentenceCount) || 5
NumberOf(count) == CASE count = "1" -> 1 [] count = "5" -> 5 [] OTHER -> 5

\* sentenceCount === 'all' ? length : Math.min(Number(sentenceCount) || 5, length)
CopyCount(count, length) == IF count = "all" THEN length ELSE Min(NumberOf(count), length)

\* texts.join('\n\n')
RECURSIVE JoinParagraphs(_)
JoinParagraphs(texts) ==
    IF texts = <<>> THEN <<>>
    ELSE IF Len(texts) = 1 THEN texts[1]
    ELSE texts[1] \o <<"\n", "\n">> \o JoinParagraphs(Tail(texts))

\* `${e.speaker}: ${e.text}`
FormatBlock(b) == <<b.speaker, ":", " ">> \o b.text

\* handleGetTranscriptForCopy: the response to {type: 'getTranscriptForCopy'}
handleGetTranscriptForCopy(count) ==
    IF ~active \/ fullTranscript = <<>>
    THEN [text |-> <<>>, count |-> 0]
    ELSE LET selected == LastN(fullTranscript, CopyCount(count, Len(fullTranscript)))
         IN  [text |-> JoinParagraphs([i \in 1..Len(selected) |-> FormatBlock(selected[i])]),
              count |-> Len(selected)]

\* the loop of buildFullList over extractTexts(); acc = [entries, known]
RECURSIVE BuildList(_, _)
BuildList(acc, raws) ==
    IF raws = <<>> THEN acc
    ELSE LET text == formatEntry(Head(raws), acc.known)
             known == formatEntryKnown(Head(raws), acc.known)
             result == acc.entries
             last == result[Len(result)]
         IN  IF text = <<>> \/ ~looksLikeCaptions(text)
             THEN BuildList([entries |-> result, known |-> known], Tail(raws))
             ELSE IF result # <<>> /\ last = text
             THEN BuildList([entries |-> result, known |-> known], Tail(raws))
             ELSE IF /\ result # <<>>
                     /\ \/ StartsWith(text, last)
                        \/ StartsWith(last, text)
                        \/ areSimilarEntries(text, last)
             THEN BuildList([entries |-> [result EXCEPT ![Len(result)] = Longer(text, last)],
                             known |-> known], Tail(raws))
             ELSE BuildList([entries |-> Append(result, text), known |-> known], Tail(raws))

\* buildFullList: capturedEntries.slice() extended by the visible texts
buildFullList(entries, known, raws) == BuildList([entries |-> entries, known |-> known], raws)

\* doCopy, called more than COPY_DEBOUNCE_MS after the last copy; current is
\* what the attached caption container shows
DoCopy(current) ==
    /\ listening
    /\ LET response == handleGetTranscriptForCopy(sentenceCount)
           all == buildFullList(capturedEntries, knownSpeakers,
                                IF captionContainer # NoEl THEN current ELSE <<>>)
           selected == LastN(all.entries, CopyCount(sentenceCount, Len(all.entries)))
       IN  IF Trim(response.text) # <<>>
           THEN clipboard' = response.text /\ UNCHANGED knownSpeakers
           ELSE /\ knownSpeakers' = all.known
                /\ clipboard' = IF all.entries = <<>> THEN clipboard
                                ELSE JoinParagraphs(selected)
    /\ UNCHANGED <<captionContainer, isDirty, previousTexts, capturedEntries,
                   listening, intervals, tabInbox, sentenceCount, discVars,
                   swVars, cmdVars, lifeVars>>

\* the copyer's onMessage listener receives {type: 'rteDeactivated'}
ReceiveDeactivated ==
    /\ tabInbox
    /\ tabInbox' = FALSE
    /\ intervals' = FALSE
    /\ captionContainer' = NoEl
    /\ textScanPrev' = [el \in Els |-> Unseen]
    /\ textScanHits' = [el \in Els |-> 0]
    /\ mutationHits' = [el \in Els |-> 0]
    /\ UNCHANGED <<isDirty, previousTexts, capturedEntries, knownSpeakers,
                   listening, clipboard, sentenceCount, documentEls, innerText,
                   pendingCandidate, pendingCandidateText, pendingCandidateTs, pageClock,
                   swVars, cmdVars, lifeVars>>

\* chrome.storage.onChanged: sentenceCount = changes.sentenceCount.newValue
SettingsChanged(count) ==
    /\ listening
    /\ sentenceCount' = count
    /\ UNCHANGED <<captureVars, listening, intervals, tabInbox, clipboard, discVars,
                   swVars, cmdVars, lifeVars>>

\* the container shows at most one line, of one of two speakers
CopyTexts == { Labelled("S", <<"a", " ", "b", " ", "c">>),
               Labelled("T", <<"a", " ", "b", " ", "c">>) }

OneLineExtractions ==
    {current \in Extractions :
        Len(current) <= 1 /\ \A i \in 1..Len(current) : current[i] \in CopyTexts}

PollOneLine == \E current \in OneLineExtractions : Poll(current, TRUE)

Copy == \E current \in OneLineExtractions : DoCopy(current)

ChangeSentenceCount == \E count \in SentenceCounts : SettingsChanged(count)

\* SpecCopy: a meeting page with the caption copyer next to a session that
\* is started, fed with a growing line and deactivated
NextCopy ==
    \/ Boot
    \/ StartSession
    \/ GrowBatch
    \/ HandleDeactivate
    \/ ReceiveDeactivated
    \/ AttachContainer
    \/ ContainerMutated
    \/ PollOneLine
    \/ Copy
    \/ ChangeSentenceCount

SpecCopy == Init /\ [][NextCopy]_vars

-----------------------------------------------------------------------------
(* Container discovery of the caption copyer: searchBySelectors,            *)
(* the body MutationObserver with evaluateMutationCandidates, and           *)
(* scanForTextChanges.  The page has two visible elements directly under   *)
(* the body, so the climbs to a parent stop at once: "e1" matches a         *)
(* container selector and is taller than the 350 px that the text scan      *)
(* accepts, "e2" matches no selector and passes the scan's geometry filter. *)

MaxPageClock == 14000
MaxHits == 6
MutationBurst == 3

SEARCH_MS == 2000
CANDIDATE_TIMEOUT_MS == 10000
MIN_MUTATION_HITS == 5
MUTATION_MIN_LEN == 10
SCAN_MIN_LEN == 5
SCAN_MIN_HITS == 2

\* what the elements of the page can show: a static text, a caption line,
\* a text that looksLikeCaptions rejects, and nothing
CaptionLine == Labelled("S", <<"a", "b", " ", "c", "d", " ", "e", "f">>)

PageTexts ==
    { ChromeText,
      CaptionLine,
      <<"a", " ", "b", " ", "c", " ", "d", " ", "e", " ", "f">>,
      <<>> }

\* the texts that the page gives to an element
TextsOf(el) == IF el \in SelectorEls THEN PageTexts ELSE {ChromeText, CaptionLine}

\* the elements that pass the geometry filter of scanForTextChanges
ScanEls == Els \ SelectorEls

\* rect.width * rect.height of an element, as a rank: "e2" is the smaller
Area(el) == IF el = "e2" THEN 1 ELSE 2

Attached == captionContainer # NoEl /\ captionContainer \in documentEls

Probe_noText(ts) ==
    LET found == {el \in SelectorEls \cap documentEls :
                     /\ Trim(innerText[el]) # <<>>
                     /\ looksLikeCaptions(Trim(innerText[el]))}
    IN  /\ captionContainer' = NoEl
        /\ IF found # {}
           THEN \E el \in found :
                   /\ pendingCandidate' = el
                   /\ pendingCandidateText' = <<>>
                   /\ pendingCandidateTs' = ts
           ELSE /\ pendingCandidate' = NoEl
                /\ UNCHANGED <<pendingCandidateText, pendingCandidateTs>>
        /\ UNCHANGED <<isDirty, previousTexts>>

\* the loop of searchBySelectors over cfg.containers: the first selector whose
\* element is visible and shows a caption-like text
Probe(ts) ==
    LET found == {el \in SelectorEls \cap documentEls :
                     /\ Trim(innerText[el]) # <<>>
                     /\ looksLikeCaptions(Trim(innerText[el]))}
    IN  /\ captionContainer' = NoEl
        /\ IF found # {}
           THEN \E el \in found :
                   /\ pendingCandidate' = el
                   /\ pendingCandidateText' = Trim(innerText[el])
                   /\ pendingCandidateTs' = ts
           ELSE /\ pendingCandidate' = NoEl
                /\ UNCHANGED <<pendingCandidateText, pendingCandidateTs>>
        /\ UNCHANGED <<isDirty, previousTexts>>

CandidateExpired_atTimeout(ts) == ts - pendingCandidateTs >= CANDIDATE_TIMEOUT_MS

\* Date.now() - pendingCandidateTs > 10000
CandidateExpired(ts) == ts - pendingCandidateTs > CANDIDATE_TIMEOUT_MS

\* searchBySelectors, run every SEARCH_MS
SearchBySelectors ==
    /\ intervals
    /\ pageClock + SEARCH_MS <= MaxPageClock
    /\ pageClock' = pageClock + SEARCH_MS
    /\ IF Attached
       THEN /\ pendingCandidate' = NoEl
            /\ UNCHANGED <<captionContainer, isDirty, previousTexts,
                           pendingCandidateText, pendingCandidateTs>>
       ELSE IF pendingCandidate # NoEl /\ pendingCandidate \in documentEls
       THEN LET nowText == Trim(innerText[pendingCandidate]) IN
            IF nowText # pendingCandidateText /\ nowText # <<>> /\ looksLikeCaptions(nowText)
            THEN /\ attachContainer(pendingCandidate)
                 /\ UNCHANGED <<pendingCandidateText, pendingCandidateTs>>
            ELSE IF CandidateExpired(pageClock')
            THEN Probe(pageClock')
            ELSE UNCHANGED <<captionContainer, isDirty, previousTexts, pendingCandidate,
                             pendingCandidateText, pendingCandidateTs>>
       ELSE Probe(pageClock')
    /\ UNCHANGED <<capturedEntries, knownSpeakers, copyVars, documentEls, innerText,
                   mutationHits, textScanPrev, textScanHits, swVars, cmdVars, lifeVars>>

\* The page changes the text of an element to text, reported to the
\* observers as k mutation records: the body observer counts them while no
\* container is set, the container observer sets isDirty
DomTextChanged(el, text, k) ==
    /\ el \in documentEls
    /\ innerText[el] # text
    /\ innerText' = [innerText EXCEPT ![el] = text]
    /\ IF intervals /\ captionContainer = NoEl
       THEN /\ mutationHits[el] + k <= MaxHits
            /\ mutationHits' = [mutationHits EXCEPT ![el] = @ + k]
       ELSE UNCHANGED mutationHits
    /\ isDirty' = IF el = captionContainer THEN TRUE ELSE isDirty
    /\ UNCHANGED <<captionContainer, previousTexts, capturedEntries, knownSpeakers,
                   copyVars, documentEls, pendingCandidate, pendingCandidateText,
                   pendingCandidateTs, pageClock, textScanPrev, textScanHits,
                   swVars, cmdVars, lifeVars>>

\* The page removes an element from the document
RemoveEl(el) ==
    /\ el \in documentEls
    /\ documentEls' = documentEls \ {el}
    /\ UNCHANGED <<captureVars, copyVars, innerText, pendingCandidate, pendingCandidateText,
                   pendingCandidateTs, pageClock, mutationHits, textScanPrev, textScanHits,
                   swVars, cmdVars, lifeVars>>

\* The page puts an element back into the document
InsertEl(el) ==
    /\ el \notin documentEls
    /\ documentEls' = documentEls \cup {el}
    /\ UNCHANGED <<captureVars, copyVars, innerText, pendingCandidate, pendingCandidateText,
                   pendingCandidateTs, pageClock, mutationHits, textScanPrev, textScanHits,
                   swVars, cmdVars, lifeVars>>

\* evaluateMutationCandidates, run every MUTATION_EVAL_MS
EvaluateMutationCandidates ==
    /\ intervals
    /\ mutationHits' = [el \in Els |-> 0]
    /\ IF Attached
       THEN UNCHANGED <<captionContainer, isDirty, previousTexts, pendingCandidate>>
       ELSE LET live == {el \in documentEls : mutationHits[el] > 0}
                bests == {el \in live : \A o \in live : mutationHits[o] <= mutationHits[el]}
            IN  IF bests = {}
                THEN UNCHANGED <<captionContainer, isDirty, previousTexts, pendingCandidate>>
                ELSE \E best \in bests :
                       LET txt == Trim(innerText[best]) IN
                       IF /\ mutationHits[best] >= MIN_MUTATION_HITS
                          /\ txt # <<>>
                          /\ Len(txt) >= MUTATION_MIN_LEN
                          /\ looksLikeCaptions(txt)
                       THEN attachContainer(best)
                       ELSE UNCHANGED <<captionContainer, isDirty, previousTexts,
                                        pendingCandidate>>
    /\ UNCHANGED <<capturedEntries, knownSpeakers, copyVars, documentEls, innerText,
                   pendingCandidateText, pendingCandidateTs, pageClock,
                   textScanPrev, textScanHits, swVars, cmdVars, lifeVars>>

\* the elements that scanForTextChanges looks at
Scanned == {el \in ScanEls \cap documentEls : Len(Trim(innerText[el])) >= SCAN_MIN_LEN}

\* textScanHits after the loop of scanForTextChanges
ScanHits ==
    [el \in Els |->
        IF /\ el \in Scanned
           /\ textScanPrev[el] # Unseen
           /\ textScanPrev[el] # Trim(innerText[el])
        THEN textScanHits[el] + 1
        ELSE textScanHits[el]]

\* scanForTextChanges, run every 800 ms
ScanForTextChanges ==
    /\ intervals
    /\ IF captionContainer # NoEl
       THEN /\ textScanPrev' = [el \in Els |-> Unseen]
            /\ textScanHits' = [el \in Els |-> 0]
            /\ UNCHANGED <<captionContainer, isDirty, previousTexts, pendingCandidate>>
       ELSE LET changed == {el \in Scanned : ScanHits[el] > textScanHits[el]}
                cands == {el \in changed : /\ ScanHits[el] >= SCAN_MIN_HITS
                                           /\ looksLikeCaptions(Trim(innerText[el]))}
            IN  IF cands # {}
                THEN /\ attachContainer(CHOOSE el \in cands :
                                           \A o \in cands : Area(el) <= Area(o))
                     /\ textScanPrev' = [el \in Els |-> Unseen]
                     /\ textScanHits' = [el \in Els |-> 0]
                ELSE /\ textScanPrev' = [el \in Els |->
                            IF el \in Scanned THEN Trim(innerText[el]) ELSE textScanPrev[el]]
                     /\ textScanHits' = ScanHits
                     /\ UNCHANGED <<captionContainer, isDirty, previousTexts,
                                    pendingCandidate>>
    /\ UNCHANGED <<capturedEntries, knownSpeakers, copyVars, documentEls, innerText,
                   pendingCandidateText, pendingCandidateTs, pageClock, mutationHits,
                   swVars, cmdVars, lifeVars>>

\* extractTexts() on the attached element: its line, if it shows one
ExtractOf(el) ==
    IF Trim(innerText[el]) # <<>> /\ looksLikeCaptions(Trim(innerText[el]))
    THEN <<Trim(innerText[el])>>
    ELSE <<>>

PollPage ==
    /\ captionContainer # NoEl
    /\ Poll(ExtractOf(captionContainer), captionContainer \in documentEls)

PageTextChanges ==
    \E el \in Els : \E text \in TextsOf(el) : DomTextChanged(el, text, MutationBurst)

\* the page takes out and puts back its caption region only
PageRemoves == \E el \in SelectorEls : RemoveEl(el)

PageInserts == \E el \in SelectorEls : InsertEl(el)

\* SpecDiscovery: the copyer in a page of two elements
NextDiscovery ==
    \/ Boot
    \/ SearchBySelectors
    \/ EvaluateMutationCandidates
    \/ ScanForTextChanges
    \/ PollPage
    \/ PageTextChanges
    \/ PageRemoves
    \/ PageInserts

SpecDiscovery == Init /\ [][NextDiscovery]_vars

-----------------------------------------------------------------------------
(* Properties of the service worker *)

HasBlock(blocks, s, t) == \E i \in 1..Len(blocks) : blocks[i] = Block(s, t)

StrictPrefix(t, u) == Len(t) < Len(u) /\ StartsWith(u, t)

\* A step of handleCaptionBatch in an active session; the batch it received
\* is the one it leaves in lastVisibleCaptions
BatchStep ==
    /\ active
    /\ lastVisibleCaptions' \in Batches
    /\ HandleCaptionBatch(lastVisibleCaptions')

\* A step of activate, deactivate or clear
ResetStep == ActivateOrFail \/ HandleDeactivate \/ ClearConversationHistory

\* A step in which the in-flight correction c resolves
ResolveStep(c) == c \in corrections /\ corrections' = corrections \ {c}

\* C1 (as claimed): when a batch revises speaker s's visible text t to a longer
\* text u that begins with t (neither committed before), the transcript never
\* holds the two separate blocks {s,t} and {s,u}, neither in committedBlocks
\* nor in state.fullTranscript.
C1_NoDuplicateOnRevision ==
    [][ \A s \in Speakers, t \in Texts, u \in Texts :
          ( /\ StrictPrefix(t, u)
            /\ HasBlock(lastVisibleCaptions, s, t)
            /\ ~HasBlock(lastVisibleCaptions, s, u)
            /\ ~HasBlock(lastVisibleCaptions', s, t)
            /\ HasBlock(lastVisibleCaptions', s, u)
            /\ ~HasBlock(committedBlocks, s, t)
            /\ ~HasBlock(committedBlocks, s, u)
            /\ BatchStep )
          => /\ ~(HasBlock(committedBlocks', s, t) /\ HasBlock(committedBlocks', s, u))
             /\ ~(HasBlock(fullTranscript', s, t) /\ HasBlock(fullTranscript', s, u))
      ]_vars

\* C2: in a session where one speaker's single visible line only grows by
\* prefix extension and then disappears, the disappearance leaves exactly one
\* committed block, with that speaker and the final revision as its text, and
\* there is never more than one committed block.
C2_GrowingLineOneBlock ==
    /\ [](Len(committedBlocks) <= 1)
    /\ [][ (GrowBatch /\ lastVisibleCaptions # <<>> /\ lastVisibleCaptions' = <<>>)
           => committedBlocks' = << Block(lastVisibleCaptions[1].speaker,
                                          lastVisibleCaptions[1].text) >> ]_vars

\* the line grew from "hhhhhhhh" to "hhhhhhhhh", was committed at both steps
\* and has disappeared
C2_Witness ==
    /\ active
    /\ lastVisibleCaptions = <<>>
    /\ committedBlocks = << Block("A", Rep("h", 9)) >>
    /\ fullTranscript = committedBlocks

\* C3 (as claimed): the length of state.fullTranscript never decreases in a
\* step other than clear, activate and deactivate.
C3_LengthNeverDecreases ==
    [][ ~ResetStep => Len(fullTranscript') >= Len(fullTranscript) ]_vars

\* C4: outside clear, activate and deactivate no step removes or reorders a
\* committed block or changes its speaker: every block keeps its index and its
\* speaker, new blocks come after the existing ones.
C4_CommittedSpeakersStable ==
    [][ ~ResetStep =>
          /\ Len(committedBlocks') >= Len(committedBlocks)
          /\ \A i \in 1..Len(committedBlocks) :
                committedBlocks'[i].speaker = committedBlocks[i].speaker
      ]_vars

\* a second block was appended behind a committed one
C4_Witness ==
    /\ Len(committedBlocks) = 2
    /\ committedBlocks[1].speaker # committedBlocks[2].speaker

\* C5 (as claimed): a batch equal to the last batch received commits nothing
\* and changes no speaker and no text of state.fullTranscript.
C5_RedeliveryChangesNothing ==
    [][ (lastVisibleCaptions' = lastVisibleCaptions /\ BatchStep)
        => /\ committedBlocks' = committedBlocks
           /\ fullTranscript' = fullTranscript
      ]_vars

\* C6: when the last committed block is {s,t} and exactly one observation
\* {s,u} of the same speaker with u strictly longer than t disappears, the
\* block's text becomes u in place and no block is added.
C6_LongerRevisionInPlace ==
    [][ \A s \in Speakers, t \in Texts, u \in Texts :
          ( /\ committedBlocks # <<>>
            /\ committedBlocks[Len(committedBlocks)] = Block(s, t)
            /\ Len(u) > Len(t)
            /\ Disappeared(lastVisibleCaptions, lastVisibleCaptions') = <<Block(s, u)>>
            /\ BatchStep )
          => committedBlocks' = [committedBlocks EXCEPT ![Len(committedBlocks)].text = u]
      ]_vars

\* the last committed block {A, "hhhhhhhh"} with its longer revision visible
C6_Witness ==
    /\ active
    /\ committedBlocks # <<>>
    /\ committedBlocks[Len(committedBlocks)] = Block("A", Rep("h", 8))
    /\ HasBlock(lastVisibleCaptions, "A", Rep("h", 9))

\* C7 (as claimed): when the last committed block is {s,t} and exactly one
\* observation {s,u} of the same speaker disappears whose text does not
\* continue t, the block {s,u} is appended and the earlier block keeps t.
C7_UnrelatedTextAppended ==
    [][ \A s \in Speakers, t \in Texts, u \in Texts :
          ( /\ committedBlocks # <<>>
            /\ committedBlocks[Len(committedBlocks)] = Block(s, t)
            /\ ~StartsWith(u, t)
            /\ Disappeared(lastVisibleCaptions, lastVisibleCaptions') = <<Block(s, u)>>
            /\ BatchStep )
          => committedBlocks' = Append(committedBlocks, Block(s, u))
      ]_vars

\* C8: a correction that resolves when pendingCorrectionId no longer equals
\* the generation it captured changes no block text and sends nothing to the
\* sink.
C8_StaleCorrectionDiscarded ==
    [][ \A c \in corrections :
          (ResolveStep(c) /\ c.id # pendingCorrectionId)
          => UNCHANGED <<fullTranscript, committedBlocks, sinkMsg, bridgeBlocks>>
      ]_vars

\* a correction of a correctable text is in flight with an outdated
\* generation while its block still has the original text and the translate
\* tab is attached: only the generation check can discard it
C8_Witness ==
    \E c \in corrections :
        /\ c.id # pendingCorrectionId
        /\ Len(c.orig) >= MIN_CORRECT_LEN
        /\ BlockText(c) = c.orig
        /\ translateTabId # NoTab

\* blocks is a full replacement list: the tail of the transcript
IsTranscriptTail(blocks, transcript) ==
    /\ blocks = LastN(transcript, Len(blocks))
    /\ Len(blocks) = Len(transcript) \/ Len(blocks) >= FLUSH_BLOCKS

\* C10: the translate tab only ever receives translateSetBlocks and
\* clearTranslation; a translateSetBlocks carries the tail of the transcript
\* as a whole list, and the bridge's blocks become exactly the list received
\* (the empty list on clearTranslation).
C10_SinkFullReplace ==
    /\ [](sinkMsg.type \in {"none", "translateSetBlocks", "clearTranslation"})
    /\ [](sinkMsg.type = "translateSetBlocks" => bridgeBlocks = sinkMsg.blocks)
    /\ [](sinkMsg.type = "clearTranslation" => bridgeBlocks = <<>>)
    /\ [][ (sinkMsg' # sinkMsg /\ sinkMsg'.type = "translateSetBlocks")
           => IsTranscriptTail(sinkMsg'.blocks, fullTranscript') ]_vars

\* the bridge holds the list re-sent after an applied correction, which
\* replaced the list of the flush before it
C10_Witness ==
    /\ sinkMsg.type = "translateSetBlocks"
    /\ bridgeBlocks # <<>>
    /\ bridgeBlocks[Len(bridgeBlocks)].text = Rep("c", 8)

\* C14 (as claimed): right after activate, deactivate and clear the
\* transcript, committedBlocks and lastVisibleCaptions are empty, the dirty
\* flag is false and every correction in flight has an outdated generation,
\* so that it is discarded when it resolves.
C14_ResetAdvancesGeneration ==
    [][ ResetStep =>
          /\ fullTranscript' = <<>>
          /\ committedBlocks' = <<>>
          /\ lastVisibleCaptions' = <<>>
          /\ ~translateDirty'
          /\ \A c \in corrections' : c.id # pendingCorrectionId'
      ]_vars

\* C16: after every caption batch of an active session every visible caption
\* is represented in fullTranscript, either as a block of its own after the
\* committed blocks or merged into the last committed block of its speaker;
\* two consecutive visible captions by one speaker both appear.
C16_VisibleRepresented ==
    [][ BatchStep =>
          \A i \in 1..Len(lastVisibleCaptions') :
              \/ HasBlock(fullTranscript', lastVisibleCaptions'[i].speaker,
                          lastVisibleCaptions'[i].text)
              \/ /\ committedBlocks' # <<>>
                 /\ committedBlocks'[Len(committedBlocks')].speaker =
                        lastVisibleCaptions'[i].speaker
                 /\ i = 1
      ]_vars

LongBatchStep ==
    /\ active
    /\ lastVisibleCaptions' \in LongLineBatches
    /\ HandleCaptionBatch(lastVisibleCaptions')

\* C18: when an observation {s,u} with a non-empty text disappears and the
\* last committed block {s,t} has the same speaker and another text, u
\* replaces t if u is strictly longer than t or does not share its first 10
\* characters, and is appended as a new block otherwise; it is never lost.
C18_DisappearedNeverLost ==
    [][ \A s \in Speakers, t \in LongTexts, u \in LongTexts :
          ( /\ t # u
            /\ committedBlocks # <<>>
            /\ committedBlocks[Len(committedBlocks)] = Block(s, t)
            /\ Disappeared(lastVisibleCaptions, lastVisibleCaptions') = <<Block(s, u)>>
            /\ LongBatchStep )
          => IF \/ Len(u) > Len(t)
                \/ ~StartsWith(u, Slice(t, 0, COMMIT_PREFIX_LEN))
             THEN committedBlocks' = [committedBlocks EXCEPT ![Len(committedBlocks)].text = u]
             ELSE committedBlocks' = Append(committedBlocks, Block(s, u))
      ]_vars

\* the text a provider returns for an accepted correction
CorrectedText == Rep("c", 8)

\* the batch of the step leaves block i alone: it is the batch received
\* before, or block i is a committed block that keeps its committed text and
\* into which no visible caption is merged
NotRevised(i) ==
    \/ lastVisibleCaptions' = lastVisibleCaptions
    \/ /\ i <= Len(committedBlocks)
       /\ i <= Len(committedBlocks')
       /\ committedBlocks'[i] = committedBlocks[i]
       /\ \/ i < Len(committedBlocks')
          \/ lastVisibleCaptions' = <<>>
          \/ lastVisibleCaptions'[1].speaker # committedBlocks[i].speaker

\* C19: the text written by an applied correction survives every later
\* caption batch that does not revise the block: the rebuild of the
\* transcript does not bring the uncorrected text back.
C19_CorrectionSurvivesRebuild ==
    [][ \A i \in 1..Len(fullTranscript) :
          ( /\ fullTranscript[i].text = CorrectedText
            /\ NotRevised(i)
            /\ BatchStep )
          => /\ i <= Len(fullTranscript')
             /\ fullTranscript'[i].text = CorrectedText
      ]_vars

\* the text that correction c was started on is the text of no block any more
TargetTextChanged(c) ==
    /\ fullTranscript # <<>>
    /\ \A i \in 1..Len(fullTranscript) : fullTranscript[i].text # c.orig

\* C20: a correction that resolves after the text of its block was changed
\* by a caption batch or a legacy transcript message is discarded: no block
\* of state.fullTranscript is written and nothing is sent to the sink.
C20_OvertakenCorrectionDiscarded ==
    [][ \A c \in corrections :
          (TargetTextChanged(c) /\ ResolveStep(c))
          => UNCHANGED <<fullTranscript, sinkMsg, bridgeBlocks>>
      ]_vars

\* C21: every translateSetBlocks payload is the (speaker, text) projection of
\* the most recent 10 blocks of state.fullTranscript at the moment of
\* sending, on the flush path and on the re-send after an applied correction.
C21_SinkPayloadRecentBlocks ==
    [][ (sinkMsg' # sinkMsg /\ sinkMsg'.type = "translateSetBlocks")
        => sinkMsg'.blocks = LastN(fullTranscript', FLUSH_BLOCKS)
      ]_vars

FlushStep == armedTimers > 0 /\ armedTimers' = armedTimers - 1 /\ FlushToTranslate

FlushedBefore == sinkMsg.type = "translateSetBlocks"

\* C30: the timer armed by the first transcript mutation after an activate
\* or a clear has the short delay DEBOUNCE_FIRST_MS; a timer armed by a
\* mutation after the first flush has the longer delay DEBOUNCE_MS.
C30_FirstFlushShortThenLong ==
    [][ (fullTranscript' # fullTranscript /\ BatchStep)
        => debounceTimer' = IF FlushedBefore THEN DEBOUNCE_MS ELSE DEBOUNCE_FIRST_MS
      ]_vars

-----------------------------------------------------------------------------
(* Properties of the persistence *)

SavedFields(data) ==
    /\ data.stored
    /\ data.active = active'
    /\ data.spellingCorrection = spellingCorrection'
    /\ data.translateTabId = translateTabId'
    /\ data.meetingTabId = meetingTabId'
    /\ data.platform = platform'

SavedTail(data) ==
    /\ Len(data.transcript) = Min(PERSIST_BLOCKS, Len(fullTranscript'))
    /\ \A i \in 1..Len(data.transcript) :
          data.transcript[i] =
              fullTranscript'[Len(fullTranscript') - Len(data.transcript) + i]

LoadStep == ~stateLoaded /\ stateLoaded' /\ storage.stored

\* C15 as stated: every save stores the last min(200, n) blocks and the
\* session fields, and a load after a restart restores fullTranscript to the
\* stored tail and every session field to its saved value.
C15_RoundTrip ==
    [][ /\ storage' # storage => SavedFields(storage') /\ SavedTail(storage')
        /\ LoadStep =>
             /\ fullTranscript' = storage.transcript
             /\ active' = storage.active
             /\ spellingCorrection' = storage.spellingCorrection
             /\ translateTabId' = storage.translateTabId
             /\ meetingTabId' = storage.meetingTabId
             /\ platform' = storage.platform
      ]_vars

\* C15 amended: as C15, but a saved tab id whose tab is gone is restored as
\* null, and platform is restored as null with a meeting tab that is gone.
C15_RoundTripRevalidated ==
    [][ /\ storage' # storage => SavedFields(storage') /\ SavedTail(storage')
        /\ LoadStep =>
             /\ fullTranscript' = storage.transcript
             /\ active' = storage.active
             /\ spellingCorrection' = storage.spellingCorrection
             /\ \A translateAlive, meetingAlive \in BOOLEAN :
                   LoadState(translateAlive, meetingAlive) =>
                     /\ translateTabId' = IF translateAlive \/ storage.translateTabId = NoTab
                                          THEN storage.translateTabId ELSE NoTab
                     /\ meetingTabId' = IF meetingAlive \/ storage.meetingTabId = NoTab
                                        THEN storage.meetingTabId ELSE NoTab
                     /\ platform' = IF meetingAlive \/ storage.meetingTabId = NoTab
                                    THEN storage.platform ELSE "null"
      ]_vars

\* a transcript of more than 200 blocks was saved, the worker restarted and
\* the load restored the last 200 blocks and the session fields
C15_Witness ==
    /\ stateLoaded
    /\ committedBlocks = <<>>
    /\ Len(fullTranscript) = PERSIST_BLOCKS
    /\ fullTranscript[1].speaker = "B"
    /\ fullTranscript = storage.transcript
    /\ active
    /\ meetingTabId = MeetTab
    /\ platform = "meet"

-----------------------------------------------------------------------------
(* Properties of the commands and streamed responses *)

Streaming == {"settings", "fetch", "reading"}

Terminals == {"streamEnd", "showOverlayError"}

\* the messages of a stream in order: one streamStart with the mode, then
\* streamChunk events, then (once the call is over) one terminal event
WellFormedStream(q) ==
    LET s == q.sent IN
    /\ Len(s) >= 1
    /\ typeMap(q.cmd) # ""
    /\ s[1] = TabMsg("streamStart", typeMap(q.cmd), "")
    /\ \A k \in 2..(Len(s) - 1) : s[k].type = "streamChunk"
    /\ IF q.phase = "closed"
       THEN Len(s) >= 2 /\ s[Len(s)].type \in Terminals
       ELSE \A k \in 2..Len(s) : s[k].type = "streamChunk"

C12_StreamFailureContained ==
    /\ [][\A i \in 1..Len(queries), err \in StreamErrors :
            StreamThrows(i, err)
            => /\ queries'[i].sent =
                     Append(queries[i].sent,
                            TabMsg("showOverlayError", typeMap(queries[i].cmd), err))
               /\ queries'[i].phase = "closed"
               /\ fullTranscript' = fullTranscript
               /\ committedBlocks' = committedBlocks]_vars
    /\ [](\A i \in 1..Len(queries) :
            /\ ~queries[i].raised
            /\ \A k \in 1..Len(queries[i].sent) :
                  queries[i].sent[k].type = "showOverlayError"
                  => \A j \in 1..Len(queries[i].sent) :
                        queries[i].sent[j].type # "streamEnd")

\* a stream failed while reading, after a chunk, in a session whose
\* transcript holds a committed block
C12_Witness ==
    /\ committedBlocks # <<>>
    /\ fullTranscript # <<>>
    /\ \E i \in 1..Len(queries) :
          queries[i].sent = << TabMsg("streamStart", typeMap(queries[i].cmd), ""),
                               TabMsg("streamChunk", "", "token"),
                               TabMsg("showOverlayError", typeMap(queries[i].cmd),
                                      "network error") >>

\* C13: a command with the name of the last accepted command arriving less
\* than COMMAND_DEBOUNCE_MS after it is dropped: nothing is started, streamed
\* or cleared and lastCommandName / lastCommandTime keep their values; at
\* COMMAND_DEBOUNCE_MS or more after the last accepted one it is accepted.
C13_CommandDebounce ==
    [][\A cmd \in Commands, senderTabId \in {NoTab, MeetTab}, dt \in Delays :
          (cmd = lastCommandName /\ DispatchCommand(cmd, senderTabId, dt))
          => IF now' - lastCommandTime < COMMAND_DEBOUNCE_MS
             THEN UNCHANGED <<swVars, ccVars, lifeVars, lastCommandName, lastCommandTime, queries>>
             ELSE /\ lastCommandTime' = now'
                  /\ lastCommandName' = cmd
                  /\ typeMap(cmd) # "" => Len(queries') = Len(queries) + 1
                  /\ cmd = "clear-translate" => clearAwaiting'
      ]_vars

\* generate-question was accepted, dropped COMMAND_DEBOUNCE_MS - 1 later and
\* accepted again COMMAND_DEBOUNCE_MS - 1 after the dropped one
C13_Witness ==
    /\ Len(queries) = 2
    /\ queries[1].cmd = "generate-question"
    /\ queries[2].cmd = "generate-question"
    /\ pendingCorrectionId = 0
    /\ lastCommandName = "generate-question"
    /\ lastCommandTime = 3 * COMMAND_DEBOUNCE_MS - 2

\* the queries whose stream has started and has not reached its terminal event
InFlight == {i \in 1..Len(queries) : queries[i].phase \in Streaming}

\* C22: while an assist stream is in flight every further assist command is
\* rejected, so at most one stream is in flight at any time and the events
\* of two queries are never interleaved.
C22_OneStreamInFlight == Cardinality(InFlight) <= 1

-----------------------------------------------------------------------------
(* Properties of copying *)

\* C17: a copy takes the last n blocks of the transcript (n = sentenceCount,
\* or all) when the session is active and the transcript is not empty, and
\* the locally captured captions otherwise; the local capture keeps running
\* while the session is inactive, also after a deactivation.
C17_CopySource ==
    /\ [][ \A current \in OneLineExtractions :
             DoCopy(current) =>
               IF active /\ fullTranscript # <<>>
               THEN LET n == CopyCount(sentenceCount, Len(fullTranscript))
                        selected == LastN(fullTranscript, n)
                    IN  clipboard' = JoinParagraphs(
                            [i \in 1..Len(selected) |-> FormatBlock(selected[i])])
               ELSE LET all == buildFullList(capturedEntries, knownSpeakers,
                                  IF captionContainer # NoEl THEN current ELSE <<>>).entries
                    IN  all # <<>> =>
                          clipboard' = JoinParagraphs(
                              LastN(all, CopyCount(sentenceCount, Len(all))))
         ]_vars
    /\ [](listening /\ ~active => intervals)

-----------------------------------------------------------------------------
(* Properties of the caption copyer *)

Range(seq) == {seq[i] : i \in 1..Len(seq)}

\* the texts the copyer holds
SeenTexts == Range(previousTexts) \cup Range(capturedEntries)

\* speaker labels equal or at least one of them empty
SpeakersCompatible(a, b) ==
    SpeakerOf(a) = <<>> \/ SpeakerOf(b) = <<>> \/ SpeakerOf(a) = SpeakerOf(b)

\* the stripped word sets overlap by at least 0.6 of the smaller one
OverlapAtLeast(a, b) ==
    LET setA == WordSet(MessageOf(a))
        setB == WordSet(MessageOf(b))
        small == Min(Cardinality(setA), Cardinality(setB))
    IN  small > 0 /\ 100 * Cardinality(setA \cap setB) >= SIMILAR_PERCENT * small

ClaimedSimilar(a, b) == SpeakersCompatible(a, b) /\ OverlapAtLeast(a, b)

\* both word sets have at least 3 words, or one message begins with the other
EnoughWords(a, b) ==
    \/ /\ Cardinality(WordSet(MessageOf(a))) >= SIMILAR_MIN_WORDS
       /\ Cardinality(WordSet(MessageOf(b))) >= SIMILAR_MIN_WORDS
    \/ StartsWith(MessageOf(a), MessageOf(b))
    \/ StartsWith(MessageOf(b), MessageOf(a))

\* A step of poll with the container still in the document; the extraction
\* it read is the one it leaves in previousTexts
PollStep == Poll(previousTexts', TRUE)

\* pushEntry(formatEntry(prev)) for every text of prevs, in order
RECURSIVE PushAll(_, _, _)
PushAll(entries, known, prevs) ==
    IF prevs = <<>> THEN entries
    ELSE PushAll(pushEntry(entries, formatEntry(Head(prevs), known)),
                 formatEntryKnown(Head(prevs), known), Tail(prevs))

\* C23: when the previous observation list is not empty and the current
\* extraction is empty, a poll pushes every previous observation to
\* capturedEntries before previousTexts becomes the empty list.
C23_EmptyExtractionCommitsAll ==
    [][ (previousTexts # <<>> /\ previousTexts' = <<>> /\ PollStep)
        => capturedEntries' = PushAll(capturedEntries, knownSpeakers, previousTexts)
      ]_vars

\* a current text equals prev, begins with it, shares a common prefix of more
\* than 0.6 of the shorter one (both longer than 10), or is similar to it
PresentIn(prev, current) ==
    \E i \in 1..Len(current) :
        \/ current[i] = prev
        \/ StartsWith(current[i], prev)
        \/ /\ Len(prev) > VISIBLE_MIN_LEN
           /\ Len(current[i]) > VISIBLE_MIN_LEN
           /\ 100 * prefixLen(prev, current[i]) >
                  SIMILAR_PERCENT * Min(Len(prev), Len(current[i]))
        \/ areSimilarEntries(prev, current[i])

\* the previous texts that are present in no current text
RECURSIVE GoneFrom(_, _)
GoneFrom(prevs, current) ==
    IF prevs = <<>> THEN <<>>
    ELSE IF PresentIn(Head(prevs), current)
         THEN GoneFrom(Tail(prevs), current)
         ELSE <<Head(prevs)>> \o GoneFrom(Tail(prevs), current)

\* the speaker names that formatEntry learns from the texts of prevs
RECURSIVE LearnAll(_, _)
LearnAll(known, prevs) ==
    IF prevs = <<>> THEN known
    ELSE LearnAll(formatEntryKnown(Head(prevs), known), Tail(prevs))

-----------------------------------------------------------------------------
(* Properties of the container discovery *)

\* a run of one of the three discovery strategies
StrategyStep ==
    \/ SearchBySelectors
    \/ EvaluateMutationCandidates
    \/ ScanForTextChanges

\* C25: there is one caption source; while the attached node is in the
\* document, a run of any discovery strategy (selector probing, mutation
\* scoring, text-change scan) keeps it, does not invoke attachContainer
\* again and leaves no pending candidate behind
C25_AttachedSourceKept ==
    /\ [](captionContainer # NoEl => pendingCandidate = NoEl)
    /\ [][ (Attached /\ StrategyStep)
           => /\ captionContainer' = captionContainer
              /\ previousTexts' = previousTexts
              /\ isDirty' = isDirty
              /\ pendingCandidate' = NoEl ]_vars

\* "e2" is attached and in the document after a selector candidate was
\* recorded, while "e1" shows a caption-like text and search ticks have run
C25_Witness ==
    /\ Attached
    /\ captionContainer = "e2"
    /\ "e1" \in documentEls
    /\ looksLikeCaptions(Trim(innerText["e1"]))
    /\ pendingCandidateTs > 0
    /\ pageClock > pendingCandidateTs
    /\ pendingCandidate = NoEl
    /\ \A el \in Els : mutationHits[el] = 0

\* the attached node has been removed from the document
Detached == captionContainer # NoEl /\ captionContainer \notin documentEls

\* C26: when the attached node has left the document, the next poll or
\* search tick puts the engine back in SEARCHING: captionContainer is null
\* and previousTexts, mutationHits, textScanPrev and textScanHits are empty
C26_DetachedBackToSearching ==
    [][ (Detached /\ (SearchBySelectors \/ PollPage))
        => /\ captionContainer' = NoEl
           /\ previousTexts' = <<>>
           /\ \A el \in Els : /\ mutationHits'[el] = 0
                              /\ textScanPrev'[el] = Unseen
                              /\ textScanHits'[el] = 0 ]_vars

\* C27: the selector strategy records a candidate with the text it shows at
\* that tick, and attaches it only at a later search tick that finds its
\* text non-empty, different from the recorded text and caption-like
C27_SelectorNeedsTextChange ==
    /\ [][ (pendingCandidate' # NoEl /\ pendingCandidateTs' # pendingCandidateTs)
           => pendingCandidateText' = Trim(innerText[pendingCandidate']) ]_vars
    /\ [][ (captionContainer' # NoEl /\ captionContainer' # captionContainer /\ SearchBySelectors)
           => /\ pendingCandidate = captionContainer'
              /\ pageClock' > pendingCandidateTs
              /\ Trim(innerText[pendingCandidate]) # pendingCandidateText
              /\ Trim(innerText[pendingCandidate]) # <<>>
              /\ looksLikeCaptions(Trim(innerText[pendingCandidate])) ]_vars

\* "e1" has just been promoted by a search tick: it is attached with a text
\* other than the recorded one, and the mutation hits of its one text
\* change are still counted
C27_Witness ==
    /\ captionContainer = "e1"
    /\ pendingCandidate = NoEl
    /\ pendingCandidateTs > 0
    /\ pageClock > pendingCandidateTs
    /\ Trim(innerText["e1"]) # pendingCandidateText
    /\ mutationHits["e1"] = MutationBurst
    /\ previousTexts = <<>>

\* a selector candidate is pending, still in the document, and its text
\* has not changed to another caption-like text
CandidateWaiting ==
    /\ pendingCandidate # NoEl
    /\ pendingCandidate \in documentEls
    /\ ~ LET nowText == Trim(innerText[pendingCandidate])
         IN  nowText # pendingCandidateText /\ nowText # <<>> /\ looksLikeCaptions(nowText)

\* the record of the pending candidate is dropped or replaced
CandidateDropped ==
    \/ pendingCandidate' # pendingCandidate
    \/ pendingCandidateText' # pendingCandidateText
    \/ pendingCandidateTs' # pendingCandidateTs

\* C28: a pending selector candidate that stays in the document without a
\* caption-shaped text change is discarded at the first search tick more
\* than 10 s after its discovery and not before; until then searchBySelectors
\* probes no other candidate
C28_CandidateTimeout ==
    /\ [][ (CandidateWaiting /\ CandidateDropped)
           => /\ pageClock' - pendingCandidateTs > CANDIDATE_TIMEOUT_MS
              /\ SearchBySelectors ]_vars
    /\ [][ (CandidateWaiting /\ pageClock' - pendingCandidateTs > CANDIDATE_TIMEOUT_MS
            /\ SearchBySelectors)
           => (pendingCandidate' = NoEl \/ pendingCandidateTs' = pageClock') ]_vars

\* C28 as the code has it: the record is also cleared, at any time, by a
\* step of the mutation or text-scan strategy that attaches a container
C28_CandidateTimeoutOrAttach ==
    /\ [][ (CandidateWaiting /\ CandidateDropped)
           => \/ /\ pageClock' - pendingCandidateTs > CANDIDATE_TIMEOUT_MS
                 /\ SearchBySelectors
              \/ /\ captionContainer' # NoEl
                 /\ pendingCandidate' = NoEl
                 /\ (EvaluateMutationCandidates \/ ScanForTextChanges) ]_vars
    /\ [][ (CandidateWaiting /\ pageClock' - pendingCandidateTs > CANDIDATE_TIMEOUT_MS
            /\ SearchBySelectors)
           => (pendingCandidate' = NoEl \/ pendingCandidateTs' = pageClock') ]_vars

\* more than 10 s after "e1" was recorded a search tick has found it with a
\* text that is not caption-like: no candidate is pending any more
C28_Witness ==
    /\ captionContainer = NoEl
    /\ pendingCandidate = NoEl
    /\ pendingCandidateTs = SEARCH_MS
    /\ pageClock - pendingCandidateTs > CANDIDATE_TIMEOUT_MS
    /\ "e1" \in documentEls
    /\ Trim(innerText["e1"]) # <<>>
    /\ ~looksLikeCaptions(Trim(innerText["e1"]))
    /\ mutationHits["e1"] = MutationBurst

-----------------------------------------------------------------------------
(* Properties of the flush, the checkpoint and the session switch *)

\* C31: a flush writes the durability checkpoint exactly when the number of
\* committed blocks has reached a multiple of 10: never at another count,
\* and always when it sends the transcript at such a count
C31_CheckpointEveryKthCommit ==
    /\ [][ (storage' # storage /\ FlushStep)
           => /\ committedBlocks # <<>>
              /\ Len(committedBlocks) % CHECKPOINT_EVERY = 0 ]_vars
    /\ [][ (committedBlocks # <<>> /\ Len(committedBlocks) % CHECKPOINT_EVERY = 0
            /\ sinkMsg' # sinkMsg /\ FlushStep)
           => storage'.transcript = LastN(fullTranscript, PERSIST_BLOCKS) ]_vars

\* C32: a flush that runs while no translate tab is attached sends nothing,
\* starts no correction, and leaves the transcript, the committed blocks
\* and the dirty flag as they were
C32_FlushWithoutSink ==
    [][ (translateTabId = NoTab /\ FlushStep)
        => /\ sinkMsg' = sinkMsg
           /\ bridgeBlocks' = bridgeBlocks
           /\ corrections' = corrections
           /\ pendingCorrectionId' = pendingCorrectionId
           /\ fullTranscript' = fullTranscript
           /\ committedBlocks' = committedBlocks
           /\ translateDirty' = translateDirty
           /\ storage' = storage ]_vars

\* the timer has fired in a session that lost its translate tab: the
\* transcript is still dirty and no timer is left
C32_Witness ==
    /\ active
    /\ translateTabId = NoTab
    /\ translateDirty
    /\ armedTimers = 0
    /\ fullTranscript # <<>>

\* the provider outcomes that must not change the text orig: a failed
\* call, no result, a result with a rejected phrase, a result longer than
\* twice the original
Rejected(outcome, orig) ==
    \/ outcome.kind \in {"throw", "bad"}
    \/ outcome.text = <<>>
    \/ Len(outcome.text) > 2 * Len(orig)

\* C33: when the provider call of a correction fails, returns nothing,
\* returns a text with a rejected phrase or a text longer than twice the
\* original, the transcript keeps its texts and nothing is sent to the sink
C33_RejectedCorrectionKeepsText ==
    [][ \A c \in corrections : \A outcome \in ProviderOutcomes :
          (Rejected(outcome, c.orig) /\ ResolveCorrection(c, outcome))
          => /\ fullTranscript' = fullTranscript
             /\ sinkMsg' = sinkMsg
             /\ bridgeBlocks' = bridgeBlocks ]_vars

\* the only correction of the session has resolved and the flushed last
\* block still has its original text
C33_Witness ==
    /\ active
    /\ spellingCorrection
    /\ pendingCorrectionId = 1
    /\ corrections = {}
    /\ ~translateDirty
    /\ armedTimers = 0
    /\ translateTabId # NoTab
    /\ fullTranscript # <<>>
    /\ fullTranscript[Len(fullTranscript)].text \in Texts
    /\ sinkMsg = [type |-> "translateSetBlocks",
                  blocks |-> RecentBlocks(fullTranscript, FLUSH_BLOCKS)]

\* C36: from deactivate to the next activate the session has no translate
\* tab and no step sends a translateSetBlocks message, also when the flush
\* timer was pending or a correction was in flight at the deactivation
C36_SilentWhileInactive ==
    /\ [](~active => translateTabId = NoTab /\ ~translateDirty)
    /\ [][ (~active /\ ~active')
           => /\ sinkMsg'.type # "translateSetBlocks"
              /\ bridgeBlocks' = <<>> ]_vars
    /\ [][ (~active /\ (FlushStep \/ CorrectionDone))
           => /\ sinkMsg' = sinkMsg
              /\ bridgeBlocks' = bridgeBlocks
              /\ fullTranscript' = fullTranscript ]_vars

\* the session was deactivated while the flush timer was pending and a
\* correction was in flight
C36_Witness ==
    /\ ~active
    /\ storage.stored
    /\ armedTimers > 0
    /\ corrections # {}

\* C37: a clear never leaves the sink out of step with the transcript: the
\* sink is never empty while the transcript is non-empty, flushed (not
\* dirty) and the translate tab that received the flush is attached
C37_ClearKeepsSinkInStep ==
    [][ (translateTabId' # NoTab /\ fullTranscript' # <<>> /\ ~translateDirty'
         /\ bridgeBlocks # <<>>)
        => bridgeBlocks' # <<>> ]_vars

\* C38: the first caption batch after a restart of the worker keeps the
\* blocks that loadState restored: they are still the first blocks of
\* state.fullTranscript, the last of them possibly with a revised text
C38_RestoredTranscriptKept ==
    [][ (stateLoaded /\ fullTranscript # <<>> /\ committedBlocks = <<>>
         /\ lastVisibleCaptions = <<>> /\ BatchStep)
        => /\ Len(fullTranscript') >= Len(fullTranscript)
           /\ \A i \in 1..Len(fullTranscript) :
                 /\ fullTranscript'[i].speaker = fullTranscript[i].speaker
                 /\ i < Len(fullTranscript) => fullTranscript'[i] = fullTranscript[i] ]_vars

-----------------------------------------------------------------------------
(* Properties of the capture scripts *)

\* a call of sendBatch, not the first since start(), that finds a caption
\* list other than the one of the previous call
ChangedBatchSeen ==
    /\ lastBatchJSON # <<>>
    /\ trackState = "tracking"
    /\ trackState' = "tracking"
    /\ lastBatchJSON' # lastBatchJSON

\* C34: sendBatch sends a captionBatch whenever the extracted list differs
\* from the list of the previous call, the empty list included, and never
\* sends the same list twice in a row
C34_BatchSentOnEveryChange ==
    /\ [][ ChangedBatchSeen => outbox' = Append(outbox, BatchMsg(pageCaptions)) ]_vars
    /\ [](\A i \in 1..(Len(outbox) - 1) :
             (outbox[i].type = "captionBatch" /\ outbox[i + 1].type = "captionBatch")
             => outbox[i] # outbox[i + 1])

\* the worker's onMessage listener routes the oldest message of the page
RouteStep ==
    /\ outbox # <<>>
    /\ outbox' = Tail(outbox)

\* C35: while state.active is false a captionBatch or transcript message
\* changes none of fullTranscript, committedBlocks, lastVisibleCaptions,
\* the dirty flag, the flush timer, meetingTabId and platform, and nothing
\* is sent to the sink
C35_InactiveIgnoresCaptions ==
    [][ (~active /\ RouteStep)
        => /\ UNCHANGED <<fullTranscript, committedBlocks, lastVisibleCaptions,
                          translateDirty, debounceTimer, armedTimers,
                          meetingTabId, platform>>
           /\ UNCHANGED <<sinkMsg, bridgeBlocks>> ]_vars

\* a worker that was never activated has routed the batch of a caption line
C35_Witness ==
    /\ ~active
    /\ ~storage.stored
    /\ script = "meet"
    /\ pageCaptions # <<>>
    /\ lastBatchJSON = Stringify(pageCaptions)
    /\ outbox = <<>>

\* a worker that was never activated has routed a transcript message
C35_WitnessLegacy ==
    /\ ~active
    /\ ~storage.stored
    /\ script = "teams-v1"
    /\ trackState = "tracking"
    /\ outbox = <<>>
    /\ scene = Len(Scenes)

-----------------------------------------------------------------------------
(* Properties of the start-up load *)

\* a loadState() call is done
LoadDone == loadsInFlight' < loadsInFlight

\* C39: the persisted state is applied only before the first message is
\* routed: a loadState() call that is done when stateLoaded is already true
\* overwrites none of the session fields, also when a message that arrived
\* during the start-up load started a second loadState()
C39_LoadNeverOverwrites ==
    [][ (stateLoaded /\ LoadDone)
        => UNCHANGED <<active, spellingCorrection, fullTranscript>> ]_vars

-----------------------------------------------------------------------------
(* Properties of the capture scripts across deactivate and activate *)

\* the session was deactivated and activated again, the meeting page is
\* still open with its batch script, and the page shows its last caption
\* list, which sendBatch has not yet seen
ChangeAfterReactivation ==
    /\ active
    /\ pendingCorrectionId >= 1
    /\ script # "teams-v1"
    /\ trackState \in {"tracking", "stopped"}
    /\ scene = Len(Scenes)
    /\ lastBatchJSON # Stringify(pageCaptions)

\* the worker of the active session has handled a batch of the captions
\* that the page shows
ChangeDelivered ==
    /\ active
    /\ meetingTabId = MeetTab
    /\ lastVisibleCaptions = pageCaptions

\* C40: after deactivate and a new activate, a change of the visible
\* captions of the meeting page that is already open is eventually
\* delivered to the worker as a captionBatch, without a reload of the page,
\* as long as the session stays active
C40_CaptureResumesAfterReactivation ==
    ChangeAfterReactivation ~> (ChangeDelivered \/ ~active)

\* as C40, for a script that has not received rteDeactivated
C40_TrackingScriptDelivers ==
    (ChangeAfterReactivation /\ trackState = "tracking" /\ ~trackInbox)
        ~> (ChangeDelivered \/ ~active)

====
